---------------------------- MODULE Spec2Model ----------------------------
(***************************************************************************)
(* Verification model of the IMU teleoperation scripts.                    *)
(*                                                                         *)
(* Units.  Lengths are millimetres, angles are centi-degrees (0.01 deg),   *)
(* the gripper is in thousandths, time is in clock ticks of                *)
(* 1/TicksPerSecond seconds.  Every float constant of the source is an     *)
(* exact multiple of its unit, so the integer arithmetic below is exact.   *)
(*                                                                         *)
(* The module holds several state machines, one per script or thread       *)
(* group; each has its own variables, its own Next and its own             *)
(* specification, and leaves the other groups' variables unchanged.        *)
(***************************************************************************)
EXTENDS Integers, Sequences, FiniteSets, TLC

\* Python's None for a lock holder or a position
None == "None"
\* An optional value: <<>> is Python's None, <<v>> is the value v
Nothing == <<>>
Some(v) == <<v>>

Abs(x) == IF x < 0 THEN -x ELSE x
Min2(a, b) == IF a <= b THEN a ELSE b
Max2(a, b) == IF a >= b THEN a ELSE b

(***************************************************************************)
(* Bounds of the model                                                     *)
(***************************************************************************)
TicksPerSecond == 2      \* clock resolution
MaxTime == 3             \* the clock stops advancing here
GridStep == 130          \* spacing (mm) of the end-effector positions tried
MaxCmds == 1             \* commands the viewer's PUSH socket can hold unsent
MaxMsgs == 5             \* messages each publisher sends
Hwm == 3                 \* ZeroMQ's high-water mark of a PUSH/PULL pipe
MaxCommands == 3         \* commands the pipe from A to the B relay holds
MaxFaults == 2           \* faults injected into the B relay's handler
MaxRecv == 3             \* messages B_for_triple receives
MaxDebug == 3            \* messages debug_publisher_thread sends
YawStep == 4500          \* spacing (0.01 degree) of the raw yaw angles tried
MaxPings == 6            \* calls of BaseInferenceClient.ping
MaxItem == 2             \* largest digit in the objects serialized
MaxLen == 2              \* longest str, list, tuple or bytes serialized
MaxHandover == 4         \* messages zmq_receiver receives
MaxPublished == 20       \* iterations of publisher_loop before main exits

(***************************************************************************)
(* triple_imu_rs485_publisher.py : constants                               *)
(***************************************************************************)
L1 == 250
L2 == 270
IMU1_ADDR == 80
IMU2_ADDR == 81
IMU3_ADDR == 82
YAW_NORMALIZATION_MODE == "NORMAL"
YAW_NORMALIZATION_THRESHOLD == 10000
X_RAW_MIN == 390
X_RAW_MAX == 520
Y_RAW_MIN == -400
Y_RAW_MAX == 400
Z_RAW_MIN == 0
Z_RAW_MAX == 300
X_TARGET_MIN == 220
X_TARGET_MAX == 420
Y_TARGET_MIN == -200
Y_TARGET_MAX == 200
Z_TARGET_MIN == 100
Z_TARGET_MAX == 400
\* "< 1.0" second in the online test, in ticks
OnlineWindow == TicksPerSecond
\* "> 0.01" degree in the valid-sample test, in centi-degrees
ValidThreshold == 1
HalfTurn == 18000
FullTurn == 36000

IMUS == {1, 2, 3}
ADDR == <<IMU1_ADDR, IMU2_ADDR, IMU3_ADDR>>

(***************************************************************************)
(* normalize_yaw_angle: returns <<yaw_normalized, new_offset>>; the offset  *)
(* is optional (None on the first frame).                                  *)
(***************************************************************************)
\* the difference returned without the wrap into [-180, 180]
WrapOnce_mut(y) == y
WrapOnce(y) ==
    IF y > HalfTurn THEN y - FullTurn
    ELSE IF y < -HalfTurn THEN y + FullTurn
    ELSE y

normalize_yaw_angle_mode(mode, yaw_raw, yaw_offset) ==
    IF mode = "OFF" THEN
        <<(IF yaw_raw < 0 THEN yaw_raw + HalfTurn
           ELSE IF yaw_raw > 0 THEN yaw_raw - HalfTurn
           ELSE yaw_raw), Some(0)>>
    ELSE IF mode = "SIMPLE" THEN
        <<(IF yaw_raw > YAW_NORMALIZATION_THRESHOLD THEN yaw_raw - HalfTurn
           ELSE IF yaw_raw < -YAW_NORMALIZATION_THRESHOLD THEN yaw_raw + HalfTurn
           ELSE yaw_raw), Some(0)>>
    ELSE IF mode = "NORMAL" THEN
        IF yaw_offset = Nothing THEN <<0, Some(yaw_raw)>>
        ELSE <<WrapOnce(yaw_raw - yaw_offset[1]), yaw_offset>>
    ELSE \* AUTO
        IF yaw_offset = Nothing THEN
            IF Abs(yaw_raw) > YAW_NORMALIZATION_THRESHOLD
            THEN <<0, Some(IF yaw_raw > 0 THEN HalfTurn ELSE -HalfTurn)>>
            ELSE <<0, Some(yaw_raw)>>
        ELSE <<WrapOnce(yaw_raw - yaw_offset[1]), yaw_offset>>

normalize_yaw_angle(yaw_raw, yaw_offset) ==
    normalize_yaw_angle_mode(YAW_NORMALIZATION_MODE, yaw_raw, yaw_offset)

(***************************************************************************)
(* Coordinate remap of publisher_loop: clip to the raw range, then affine  *)
(* interpolation into the target range.  The quotient is kept exact: the   *)
(* mapped value is the fraction num / den.                                 *)
(***************************************************************************)
\* the remap without np.clip
Clip_mut(v, lo, hi) == v
Clip(v, lo, hi) == Min2(Max2(v, lo), hi)

MapAxis(v, rawMin, rawMax, tMin, tMax) ==
    LET raw == Clip(v, rawMin, rawMax)
    IN  [num |-> tMin * (rawMax - rawMin) + (raw - rawMin) * (tMax - tMin),
         den |-> rawMax - rawMin]

Remap(end_pos) ==
    <<MapAxis(end_pos[1], X_RAW_MIN, X_RAW_MAX, X_TARGET_MIN, X_TARGET_MAX),
      MapAxis(end_pos[2], Y_RAW_MIN, Y_RAW_MAX, Y_TARGET_MIN, Y_TARGET_MAX),
      MapAxis(end_pos[3], Z_RAW_MIN, Z_RAW_MAX, Z_TARGET_MIN, Z_TARGET_MAX)>>

\* the value published when calculate_end_effector_position raises
FallbackPos == <<0, 0, 0>>


(***************************************************************************)
(* triple_imu_rs485_publisher.py : state                                   *)
(***************************************************************************)
VARIABLES
    now,               \* time.time(), in ticks
    imu_euler,         \* imu1_euler..imu3_euler
    imu_last_update,   \* imu1_last_update..imu3_last_update (0 = never)
    imu_yaw_offset,    \* imu1_yaw_offset..imu3_yaw_offset (optional)
    imu_data_lock,     \* holder of imu_data_lock, or None
    cbPc,              \* position of data_callback (device read thread)
    cbTime,            \* current_time of the running callback
    mainPc,            \* position of main
    online_only,       \* args.online_only
    deviceOpen,        \* rs485_device.isOpen
    pubPc,             \* position of publisher_loop inside one iteration
    pubTime,           \* current_time of the iteration
    pubSeen,           \* the timestamps the iteration's online test read
    pubOnline,         \* imu1_online..imu3_online of the iteration
    pubEuler,          \* euler1..euler3 copied by the iteration
    end_pos,           \* end_pos of the iteration
    last_stat_time,    \* last_stat_time of publisher_loop
    lastMsg,           \* the message the iteration gave to send_string
    access             \* shared-state accesses made by the last step

pubVars == <<now, imu_euler, imu_last_update, imu_yaw_offset, imu_data_lock,
             cbPc, cbTime, mainPc, online_only, deviceOpen, pubPc,
             pubTime, pubSeen, pubOnline, pubEuler, end_pos, last_stat_time,
             lastMsg, access>>

(***************************************************************************)
(* Coordinate remap on its own : state                                     *)
(***************************************************************************)
VARIABLES
    rmPos,             \* end_pos handed to the remap
    rmMapped           \* [x_mapped, y_mapped, z_mapped] (optional)

rmVars == <<rmPos, rmMapped>>

(***************************************************************************)
(* triple_imu_rs485_publisher_dual_cam_UI_voice.py and the PyQt5 viewer :   *)
(* state                                                                   *)
(***************************************************************************)
VARIABLES
    keyboard_thread_running,
    current_key,       \* None, "1" or "2"
    keyFresh,          \* time.time() - last_key_time <= KEY_TIMEOUT
    gripper_value,     \* in thousandths
    klPc,              \* position of keyboard_listener
    gtPc,              \* position of gripper_update_thread
    uiMainPc,          \* position of main
    qRead,             \* keyboard_listener has read 'q' or 'Q'
    uiMsg,             \* gripper of the message sent by the last step (optional)
    command_socket     \* messages held by the viewer's PUSH socket to :5562

uiVars == <<keyboard_thread_running, current_key, keyFresh, gripper_value,
            klPc, gtPc, uiMainPc, qRead, uiMsg, command_socket>>

(***************************************************************************)
(* The publisher-to-relay streams : state.  A message is its sequence      *)
(* number (the order of its timestamp "t").                                *)
(***************************************************************************)
VARIABLES
    pubSeq,            \* messages triple_imu_rs485_publisher has published
    subConnected,      \* B_for_triple's SUB socket is connected
    subPipe,           \* what that SUB socket (CONFLATE = 1) holds (optional)
    subLast,           \* the last message B_for_triple processed (0 = none)
    pushSeq,           \* messages the UI voice publisher has pushed to B
    pullPipe,          \* the PUSH/PULL pipe to B_reverse_whole
    pullLast,          \* the last message B_reverse_whole processed
    stGot              \* the message a relay received in the last step

stVars == <<pubSeq, subConnected, subPipe, subLast, pushSeq, pullPipe,
            pullLast, stGot>>

(***************************************************************************)
(* whole3_2/B_reverse_whole.py, thread_command_handler : state             *)
(***************************************************************************)
VARIABLES
    socket_from_a,     \* None, or "bound": the PULL socket on port 5555
    socket_to_c,       \* None, "bound" or "unbound": the PUSH socket (5556)
    bPc,               \* "run", or "sleep" (time.sleep(1) of a handler)
    portBusy,          \* port -> another process holds it
    cConnected,        \* C is connected to socket_to_c
    aPipe,             \* commands queued for socket_from_a
    bOutcome,          \* what became of the last command B received
    bFaults            \* faults injected so far

bVars == <<socket_from_a, socket_to_c, bPc, portBusy, cConnected, aPipe,
           bOutcome, bFaults>>

(***************************************************************************)
(* whole2/B_for_triple.py, thread_data_from_triple : state                 *)
(***************************************************************************)
VARIABLES
    lerobot_handler,   \* None, or "handler"
    frame_count,       \* lerobot_handler.frame_count
    fwdPc,             \* "start", "loop", or "sleep" (time.sleep(1))
    fwdParsed,         \* the received messages json.loads accepted, in order
    fwdSent,           \* the messages given to socket_to_c.send_string
    fwdCount           \* messages received so far

fwdVars == <<lerobot_handler, frame_count, fwdPc, fwdParsed, fwdSent,
             fwdCount>>

(***************************************************************************)
(* The debug feed: debug_publisher_thread -> debug_server.zmq_listener :    *)
(* state                                                                   *)
(***************************************************************************)
VARIABLES
    publish_count,     \* publish_count of debug_publisher_thread
    debugPipe,         \* byte strings on their way to the listener's socket
    debugReached,      \* messages socket.recv() has returned
    total_messages,    \* data_manager.stats["total_messages"]
    wsClients,         \* manager.get_connection_count()
    broadcasts,        \* calls of manager.broadcast
    listenErrors       \* times zmq_listener's "except Exception" ran

dbgVars == <<publish_count, debugPipe, debugReached, total_messages,
             wsClients, broadcasts, listenErrors>>

(***************************************************************************)
(* The four publisher scripts' remaps side by side : state                 *)
(***************************************************************************)
VARIABLES
    cmpPos,            \* the end_pos given to every script's remap
    cmpMapped          \* script -> [x_mapped, y_mapped, z_mapped] (optional)

cmpVars == <<cmpPos, cmpMapped>>

(***************************************************************************)
(* normalize_yaw_angle under each YAW_NORMALIZATION_MODE : state           *)
(***************************************************************************)
VARIABLES
    yawMode,           \* YAW_NORMALIZATION_MODE of the run (None until set)
    yawRaw,            \* yaw_raw of the current frame
    yawOffset,         \* imuN_yaw_offset (optional)
    yawResult          \* yaw_normalized returned for the frame (optional)

yawVars == <<yawMode, yawRaw, yawOffset, yawResult>>

(***************************************************************************)
(* check_devices.create_modbus_request : state                             *)
(***************************************************************************)
VARIABLES
    device_addr,       \* arguments of create_modbus_request
    start_reg,
    num_regs,
    request            \* the bytes returned (optional)

mbVars == <<device_addr, start_reg, num_regs, request>>

(***************************************************************************)
(* zmq_base.BaseInferenceClient.ping : state                               *)
(***************************************************************************)
VARIABLES
    reqState,          \* the REQ socket: "ready" to send, or "awaiting" a reply
    serverUp,          \* a server is connected to the REQ socket
    replyQueued,       \* a reply has arrived and has not been received
    pingCalls,         \* calls of ping made
    repliesReceived,   \* times "self.socket.recv()" of ping returned
    pingReturned,      \* what the last call returned (optional)
    pingGotReply       \* the last call received a reply

pingVars == <<reqState, serverUp, replyQueued, pingCalls, repliesReceived,
              pingReturned, pingGotReply>>

(***************************************************************************)
(* zmq_base.TorchSerializer : state                                        *)
(***************************************************************************)
VARIABLES
    tsObject,          \* the Python object given to to_bytes
    tsBytes,           \* to_bytes(tsObject) (optional)
    tsBack             \* from_bytes(tsBytes) (optional)

tsVars == <<tsObject, tsBytes, tsBack>>

(***************************************************************************)
(* lerobot_zeroMQ_imu.py : zmq_receiver and the control loop : state       *)
(***************************************************************************)
VARIABLES
    lock,              \* None, or the thread holding it: "receiver", "loop"
    received_data,     \* number of the message stored (optional; JSON null
                       \* is stored as None)
    new_data_available,
    rxPc,              \* zmq_receiver: "recv", "lock", "store", "flag", "unlock"
    rxData,            \* "data" of zmq_receiver (optional)
    rxCount,           \* messages recv_string has returned
    stored,            \* number of the last message stored in received_data
    loopPc,            \* control loop: "idle", "check", "clear", "unlock"
    applied,           \* numbers of the messages applied to target_gpos
    overwritten        \* numbers of the messages replaced in received_data
                       \* while new_data_available was still set

hoVars == <<lock, received_data, new_data_available, rxPc, rxData, rxCount,
            stored, loopPc, applied, overwritten>>

(***************************************************************************)
(* main of triple_imu_rs485_publisher.py, resource by resource : state     *)
(***************************************************************************)
VARIABLES
    exPc,              \* where main is, from "create" (after bind) to "exited"
    rs485_device,      \* None, or "device"
    isOpen,            \* rs485_device.isOpen
    loopRead,          \* startLoopRead is in effect
    published,         \* iterations of publisher_loop made
    wasOpen,           \* the device was open when "finally" was entered
    deviceCloses,      \* calls of rs485_device.closeDevice()
    socketCloses,      \* calls of pub_socket.close()
    contextTerms,      \* calls of zmq_context.term()
    exitHow            \* None, "returned", or "raised" out of main

exVars == <<exPc, rs485_device, isOpen, loopRead, published, wasOpen,
            deviceCloses, socketCloses, contextTerms, exitHow>>

vars == <<pubVars, rmVars, uiVars, stVars, bVars, fwdVars, dbgVars, cmpVars,
          yawVars, mbVars, pingVars, tsVars, hoVars, exVars>>

\* what each state machine leaves alone
pubRest == <<rmVars, uiVars, stVars, bVars, fwdVars, dbgVars, cmpVars,
             yawVars, mbVars, pingVars, tsVars, hoVars, exVars>>
rmRest == <<pubVars, uiVars, stVars, bVars, fwdVars, dbgVars, cmpVars,
            yawVars, mbVars, pingVars, tsVars, hoVars, exVars>>
uiRest == <<pubVars, rmVars, stVars, bVars, fwdVars, dbgVars, cmpVars,
            yawVars, mbVars, pingVars, tsVars, hoVars, exVars>>
stRest == <<pubVars, rmVars, uiVars, bVars, fwdVars, dbgVars, cmpVars,
            yawVars, mbVars, pingVars, tsVars, hoVars, exVars>>
bRest == <<pubVars, rmVars, uiVars, stVars, fwdVars, dbgVars, cmpVars,
           yawVars, mbVars, pingVars, tsVars, hoVars, exVars>>
fwdRest == <<pubVars, rmVars, uiVars, stVars, bVars, dbgVars, cmpVars,
             yawVars, mbVars, pingVars, tsVars, hoVars, exVars>>
dbgRest == <<pubVars, rmVars, uiVars, stVars, bVars, fwdVars, cmpVars,
             yawVars, mbVars, pingVars, tsVars, hoVars, exVars>>
cmpRest == <<pubVars, rmVars, uiVars, stVars, bVars, fwdVars, dbgVars,
             yawVars, mbVars, pingVars, tsVars, hoVars, exVars>>
yawRest == <<pubVars, rmVars, uiVars, stVars, bVars, fwdVars, dbgVars,
             cmpVars, mbVars, pingVars, tsVars, hoVars, exVars>>
mbRest == <<pubVars, rmVars, uiVars, stVars, bVars, fwdVars, dbgVars,
            cmpVars, yawVars, pingVars, tsVars, hoVars, exVars>>
pingRest == <<pubVars, rmVars, uiVars, stVars, bVars, fwdVars, dbgVars,
              cmpVars, yawVars, mbVars, tsVars, hoVars, exVars>>
tsRest == <<pubVars, rmVars, uiVars, stVars, bVars, fwdVars, dbgVars,
            cmpVars, yawVars, mbVars, pingVars, hoVars, exVars>>
hoRest == <<pubVars, rmVars, uiVars, stVars, bVars, fwdVars, dbgVars,
            cmpVars, yawVars, mbVars, pingVars, tsVars, exVars>>
exRest == <<pubVars, rmVars, uiVars, stVars, bVars, fwdVars, dbgVars,
            cmpVars, yawVars, mbVars, pingVars, tsVars, hoVars>>

ZeroEuler == [roll |-> 0, pitch |-> 0, yaw |-> 0]

\* What DeviceModel.deviceData can hold for one address: no entry (<<>>), or
\* the registers AngX, AngY, AngZ: all zero, at the 0.01 degree threshold, or
\* a valid sample.
Samples ==
    { [roll |-> 0, pitch |-> 0, yaw |-> 0],
      [roll |-> 0, pitch |-> 0, yaw |-> ValidThreshold],
      [roll |-> 200, pitch |-> 0, yaw |-> 17000] }
DeviceEntries == {Nothing} \cup { Some(x) : x \in Samples }

\* one access to the shared per-IMU state, with whether the lock is held
Acc(who, var, kind) ==
    [who |-> who, var |-> var, kind |-> kind, locked |-> imu_data_lock = who]

PubInit ==
    /\ now = 1
    /\ imu_euler = [i \in IMUS |-> ZeroEuler]
    /\ imu_last_update = [i \in IMUS |-> 0]
    /\ imu_yaw_offset = [i \in IMUS |-> Nothing]
    /\ imu_data_lock = None
    /\ cbPc = "idle"
    /\ cbTime = 0
    /\ mainPc = "start"
    /\ online_only = FALSE
    /\ deviceOpen = FALSE
    /\ pubPc = "check"
    /\ pubTime = 0
    /\ pubSeen = [i \in IMUS |-> 0]
    /\ pubOnline = [i \in IMUS |-> FALSE]
    /\ pubEuler = [i \in IMUS |-> ZeroEuler]
    /\ end_pos = FallbackPos
    /\ last_stat_time = 0
    /\ lastMsg = Nothing
    /\ access = {}

\* the wall clock advances
Tick ==
    /\ now < MaxTime
    /\ now' = now + 1
    /\ access' = {}
    /\ UNCHANGED <<imu_euler, imu_last_update, imu_yaw_offset, imu_data_lock,
                   cbPc, cbTime, mainPc, online_only, deviceOpen,
                   pubPc, pubTime, pubSeen, pubOnline, pubEuler, end_pos,
                   last_stat_time, lastMsg>>
    /\ UNCHANGED pubRest

(***************************************************************************)
(* data_callback                                                           *)
(***************************************************************************)
\* "abs(roll) > 0.01 or abs(pitch) > 0.01 or abs(yaw) > 0.01"
ValidSample(s) ==
    Abs(s.roll) > ValidThreshold \/ Abs(s.pitch) > ValidThreshold
        \/ Abs(s.yaw) > ValidThreshold

\* data = DeviceModel.deviceData; current_time = time.time().  The entries
\* of data are drawn where the callback looks at them.
CallbackEnter ==
    /\ mainPc \in {"wait", "publish"}
    /\ deviceOpen
    /\ cbPc = "idle"
    /\ cbTime' = now
    /\ cbPc' = "lock"
    /\ access' = {}
    /\ UNCHANGED <<now, imu_euler, imu_last_update, imu_yaw_offset,
                   imu_data_lock, mainPc, online_only, deviceOpen, pubPc,
                   pubTime, pubSeen, pubOnline, pubEuler, end_pos,
                   last_stat_time, lastMsg>>
    /\ UNCHANGED pubRest

\* data_callback without its "with imu_data_lock:"
CallbackLock_mut ==
    /\ cbPc = "lock"
    /\ cbPc' = "imu1"
    /\ access' = {}
    /\ UNCHANGED <<now, imu_euler, imu_last_update, imu_yaw_offset,
                   imu_data_lock, cbTime, mainPc, online_only, deviceOpen,
                   pubPc, pubTime, pubSeen, pubOnline, pubEuler, end_pos,
                   last_stat_time, lastMsg>>
    /\ UNCHANGED pubRest

\* "with imu_data_lock:" entry
CallbackLock ==
    /\ cbPc = "lock"
    /\ imu_data_lock = None
    /\ imu_data_lock' = "callback"
    /\ cbPc' = "imu1"
    /\ access' = {}
    /\ UNCHANGED <<now, imu_euler, imu_last_update, imu_yaw_offset, cbTime,
                   mainPc, online_only, deviceOpen, pubPc, pubTime, pubSeen,
                   pubOnline, pubEuler, end_pos, last_stat_time, lastMsg>>
    /\ UNCHANGED pubRest

\* the block "if 80 in data: ..." (i = 1), "if 81 ..." (2), "if 82 ..." (3)
CallbackImu(i) ==
    /\ cbPc = <<"imu1", "imu2", "imu3">>[i]
    /\ cbPc' = <<"imu2", "imu3", "unlock">>[i]
    /\ \E e \in DeviceEntries :
         IF e # Nothing /\ ValidSample(e[1])
         THEN LET r == normalize_yaw_angle(e[1].yaw, imu_yaw_offset[i])
              IN  /\ imu_yaw_offset' = [imu_yaw_offset EXCEPT ![i] = r[2]]
                  /\ imu_euler' = [imu_euler EXCEPT ![i] =
                          [roll |-> e[1].roll, pitch |-> e[1].pitch,
                           yaw |-> r[1]]]
                  /\ imu_last_update' = [imu_last_update EXCEPT ![i] = cbTime]
                  /\ access' = { Acc("callback", "yaw_offset", "read"),
                                 Acc("callback", "yaw_offset", "write"),
                                 Acc("callback", "euler", "write"),
                                 Acc("callback", "last_update", "write") }
         ELSE /\ UNCHANGED <<imu_yaw_offset, imu_euler, imu_last_update>>
              /\ access' = {}
    /\ UNCHANGED <<now, imu_data_lock, cbTime, mainPc, online_only,
                   deviceOpen, pubPc, pubTime, pubSeen, pubOnline, pubEuler,
                   end_pos, last_stat_time, lastMsg>>
    /\ UNCHANGED pubRest

\* leaving the "with" block; the callback returns
CallbackUnlock ==
    /\ cbPc = "unlock"
    /\ imu_data_lock' =
          IF imu_data_lock = "callback" THEN None ELSE imu_data_lock
    /\ cbPc' = "idle"
    /\ cbTime' = 0
    /\ access' = {}
    /\ UNCHANGED <<now, imu_euler, imu_last_update, imu_yaw_offset,
                   mainPc, online_only, deviceOpen, pubPc, pubTime, pubSeen,
                   pubOnline, pubEuler, end_pos, last_stat_time, lastMsg>>
    /\ UNCHANGED pubRest

(***************************************************************************)
(* publisher_loop (one iteration of "while True")                          *)
(***************************************************************************)
\* "(current_time - imuN_last_update) < 1.0 if imuN_last_update > 0 else False"
OnlineTest_mut(current_time, last_update) ==
    (current_time - last_update) < OnlineWindow
OnlineTest(current_time, last_update) ==
    IF last_update > 0 THEN (current_time - last_update) < OnlineWindow
    ELSE FALSE

\* "imu1_online and imu2_online and imu3_online"
AllOnline_mut(flags) == \E i \in IMUS : flags[i]
AllOnline(flags) == \A i \in IMUS : flags[i]

\* "current_time - last_stat_time >= 0.3", in ticks
StatInterval == (3 * TicksPerSecond + 9) \div 10

\* The end-effector positions calculate_end_effector_position can return:
\* every coordinate is within the reach L1 + L2 of the two links.  The grid
\* holds the raw-range end points, points inside and points outside.
Reach == L1 + L2
Grid ==
    { c \in (-Reach)..Reach : c % GridStep = 0 }
        \cup {X_RAW_MIN, X_RAW_MAX, Y_RAW_MIN, Y_RAW_MAX, Z_RAW_MIN, Z_RAW_MAX}
KinematicsResults == { <<x, y, z>> : x \in Grid, y \in Grid, z \in Grid }
\* the positions tried inside the publishing loop
LoopPositions == { <<0, Reach, -Reach>> }

\* loop_start, current_time = time.time(); imu1_online = ...,
\* imu2_online = ..., imu3_online = ...; then
\* "if online_only and not (imu1_online and imu2_online and imu3_online):
\*      ...; time.sleep(publish_interval); continue"
PubCheck ==
    /\ mainPc = "publish"
    /\ pubPc = "check"
    /\ pubTime' = now
    /\ pubSeen' = imu_last_update
    /\ pubOnline' = [i \in IMUS |-> OnlineTest(now, imu_last_update[i])]
    /\ pubPc' = IF online_only /\ ~AllOnline(pubOnline')
                THEN "sleepSkip" ELSE "lock"
    /\ access' = { Acc("publisher", "last_update", "read") }
    /\ UNCHANGED <<now, imu_euler, imu_last_update, imu_yaw_offset,
                   imu_data_lock, cbPc, cbTime, mainPc, online_only,
                   deviceOpen, pubEuler, end_pos, last_stat_time, lastMsg>>
    /\ UNCHANGED pubRest

\* "with imu_data_lock:" entry
PubLock ==
    /\ mainPc = "publish"
    /\ pubPc = "lock"
    /\ imu_data_lock = None
    /\ imu_data_lock' = "publisher"
    /\ pubPc' = "copy"
    /\ access' = {}
    /\ UNCHANGED <<now, imu_euler, imu_last_update, imu_yaw_offset, cbPc,
                   cbTime, mainPc, online_only, deviceOpen, pubTime,
                   pubSeen, pubOnline, pubEuler, end_pos, last_stat_time,
                   lastMsg>>
    /\ UNCHANGED pubRest

\* "euler1 = imu1_euler.copy() ..." and the end of the "with" block
PubCopy ==
    /\ mainPc = "publish"
    /\ pubPc = "copy"
    /\ pubEuler' = imu_euler
    /\ access' = { Acc("publisher", "euler", "read") }
    /\ imu_data_lock' =
          IF imu_data_lock = "publisher" THEN None ELSE imu_data_lock
    /\ pubPc' = "send"
    /\ UNCHANGED <<now, imu_euler, imu_last_update, imu_yaw_offset, cbPc,
                   cbTime, mainPc, online_only, deviceOpen, pubTime,
                   pubSeen, pubOnline, end_pos, last_stat_time, lastMsg>>
    /\ UNCHANGED pubRest

\* kinematics (or its [0, 0, 0] fallback), remap, message, send_string
PubSend ==
    /\ mainPc = "publish"
    /\ pubPc = "send"
    /\ \E p \in LoopPositions \cup {FallbackPos}, sent \in BOOLEAN :
          /\ end_pos' = p
          /\ IF sent
             THEN /\ lastMsg' = Some([position |-> Remap(p),
                                      orientation |-> pubEuler[3],
                                      gripper |-> 0,
                                      t |-> pubTime])
                  /\ pubPc' = "sent"
             ELSE /\ UNCHANGED lastMsg
                  /\ pubPc' = "sendFailed"
    /\ access' = {}
    /\ UNCHANGED <<now, imu_euler, imu_last_update, imu_yaw_offset,
                   imu_data_lock, cbPc, cbTime, mainPc, online_only,
                   deviceOpen, pubTime, pubSeen, pubOnline, pubEuler,
                   last_stat_time>>
    /\ UNCHANGED pubRest

\* "if current_time - last_stat_time >= 0.3:" the status table, which prints
\* imuN_yaw_offset; then the sleep to the end of the interval
PubStats ==
    /\ mainPc = "publish"
    /\ pubPc \in {"sent", "sendFailed"}
    /\ IF pubTime - last_stat_time >= StatInterval
       THEN /\ last_stat_time' = pubTime
            /\ access' = { Acc("publisher", "yaw_offset", "read") }
       ELSE /\ UNCHANGED last_stat_time
            /\ access' = {}
    /\ pubPc' = "sleep"
    /\ UNCHANGED <<now, imu_euler, imu_last_update, imu_yaw_offset,
                   imu_data_lock, cbPc, cbTime, mainPc, online_only,
                   deviceOpen, pubTime, pubSeen, pubOnline, pubEuler, end_pos,
                   lastMsg>>
    /\ UNCHANGED pubRest

\* time.sleep(...) is over: the next iteration starts (its locals are
\* assigned afresh before they are read)
PubSleep ==
    /\ mainPc = "publish"
    /\ pubPc \in {"sleep", "sleepSkip"}
    /\ pubPc' = "check"
    /\ pubTime' = 0
    /\ pubSeen' = [i \in IMUS |-> 0]
    /\ pubOnline' = [i \in IMUS |-> FALSE]
    /\ pubEuler' = [i \in IMUS |-> ZeroEuler]
    /\ end_pos' = FallbackPos
    /\ lastMsg' = Nothing
    /\ access' = {}
    /\ UNCHANGED <<now, imu_euler, imu_last_update, imu_yaw_offset,
                   imu_data_lock, cbPc, cbTime, mainPc, online_only,
                   deviceOpen, last_stat_time>>
    /\ UNCHANGED pubRest

(***************************************************************************)
(* main of triple_imu_rs485_publisher.py                                   *)
(***************************************************************************)
\* argument parsing, bind, DeviceModel(...), openDevice, startLoopRead
MainStart ==
    /\ mainPc = "start"
    /\ \E oo \in BOOLEAN, opened \in BOOLEAN :
          /\ online_only' = oo
          /\ deviceOpen' = opened
          /\ mainPc' = IF opened THEN "wait" ELSE "cleanup"
    /\ access' = {}
    /\ UNCHANGED <<now, imu_euler, imu_last_update, imu_yaw_offset,
                   imu_data_lock, cbPc, cbTime, pubPc, pubTime,
                   pubSeen, pubOnline, pubEuler, end_pos, last_stat_time,
                   lastMsg>>
    /\ UNCHANGED pubRest

\* "while imu1_yaw_offset is None or ...: time.sleep(0.1)", then
\* publisher_loop(...) is called (last_stat_time = time.time())
MainWait ==
    /\ mainPc = "wait"
    /\ access' = { Acc("main", "yaw_offset", "read") }
    /\ IF \E i \in IMUS : imu_yaw_offset[i] = Nothing
       THEN UNCHANGED <<mainPc, last_stat_time>>
       ELSE mainPc' = "publish" /\ last_stat_time' = now
    /\ UNCHANGED <<now, imu_euler, imu_last_update, imu_yaw_offset,
                   imu_data_lock, cbPc, cbTime, online_only,
                   deviceOpen, pubPc, pubTime, pubSeen, pubOnline, pubEuler,
                   end_pos, lastMsg>>
    /\ UNCHANGED pubRest

\* Ctrl+C: KeyboardInterrupt in the wait or in publisher_loop
MainInterrupt ==
    /\ mainPc \in {"wait", "publish"}
    /\ mainPc' = "cleanup"
    /\ imu_data_lock' =
          IF imu_data_lock = "publisher" THEN None ELSE imu_data_lock
    /\ access' = {}
    /\ UNCHANGED <<now, imu_euler, imu_last_update, imu_yaw_offset, cbPc,
                   cbTime, online_only, deviceOpen, pubPc, pubTime,
                   pubSeen, pubOnline, pubEuler, end_pos, last_stat_time,
                   lastMsg>>
    /\ UNCHANGED pubRest

\* the "finally" block: stopLoopRead, closeDevice, socket close, term
MainCleanup ==
    /\ mainPc = "cleanup"
    /\ mainPc' = "done"
    /\ deviceOpen' = FALSE
    /\ access' = {}
    /\ UNCHANGED <<now, imu_euler, imu_last_update, imu_yaw_offset,
                   imu_data_lock, cbPc, cbTime, online_only, pubPc,
                   pubTime, pubSeen, pubOnline, pubEuler, end_pos,
                   last_stat_time, lastMsg>>
    /\ UNCHANGED pubRest

PubNext ==
    \/ Tick
    \/ CallbackEnter
    \/ CallbackLock
    \/ \E i \in IMUS : CallbackImu(i)
    \/ CallbackUnlock
    \/ MainStart
    \/ MainWait
    \/ MainInterrupt
    \/ MainCleanup
    \/ PubCheck
    \/ PubLock
    \/ PubCopy
    \/ PubSend
    \/ PubStats
    \/ PubSleep

(***************************************************************************)
(* The remap of publisher_loop applied to every position the kinematics    *)
(* can return                                                              *)
(***************************************************************************)
RemapInit ==
    /\ rmPos = FallbackPos
    /\ rmMapped = Nothing

\* "end_pos = calculate_end_effector_position(euler1, euler2)", or the
\* "except: end_pos = [0, 0, 0]" fallback
RemapKinematics ==
    /\ \E p \in KinematicsResults \cup {FallbackPos} : rmPos' = p
    /\ rmMapped' = Nothing
    /\ UNCHANGED rmRest

\* "x_raw = np.clip(...)" ... "z_mapped = ..."
RemapApply ==
    /\ rmMapped = Nothing
    /\ rmMapped' = Some(Remap(rmPos))
    /\ UNCHANGED rmPos
    /\ UNCHANGED rmRest

RemapNext ==
    \/ RemapKinematics
    \/ RemapApply

(***************************************************************************)
(* triple_imu_rs485_publisher_dual_cam_UI_voice.py : keyboard, gripper,    *)
(* publishing loop and main; imu_dual_cam_viewer.py : gripper commands     *)
(***************************************************************************)
GRIPPER_STEP == 5
GripperMin == 0
GripperMax == 1000

UiInit ==
    /\ keyboard_thread_running = FALSE
    /\ current_key = None
    /\ keyFresh = FALSE
    /\ gripper_value = 0
    /\ klPc = "off"
    /\ gtPc = "off"
    /\ uiMainPc = "start"
    /\ qRead = FALSE
    /\ uiMsg = Nothing
    /\ command_socket = <<>>

\* main up to the call of publisher_loop: the device is opened, the keyboard
\* and gripper threads are started; keyboard_listener returns at once when
\* the terminal cannot be put in cbreak mode
UiMainStart ==
    /\ uiMainPc = "start"
    /\ \E opened \in BOOLEAN, tty \in BOOLEAN :
          IF opened
          THEN /\ keyboard_thread_running' = TRUE
               /\ klPc' = IF tty THEN "listening" ELSE "done"
               /\ gtPc' = "running"
               /\ uiMainPc' = "publishing"
          ELSE /\ uiMainPc' = "cleanup"
               /\ UNCHANGED <<keyboard_thread_running, klPc, gtPc>>
    /\ uiMsg' = Nothing
    /\ UNCHANGED <<current_key, keyFresh, gripper_value, qRead,
                   command_socket>>
    /\ UNCHANGED uiRest

\* keyboard_listener reads '1' or '2'
KeyPress(key) ==
    /\ uiMainPc # "done"
    /\ klPc = "listening"
    /\ keyboard_thread_running
    /\ current_key' = key
    /\ keyFresh' = TRUE
    /\ uiMsg' = Nothing
    /\ UNCHANGED <<keyboard_thread_running, gripper_value, klPc, gtPc,
                   uiMainPc, qRead, command_socket>>
    /\ UNCHANGED uiRest

\* keyboard_listener reads 'q' or 'Q'
KeyQuit ==
    /\ uiMainPc # "done"
    /\ klPc = "listening"
    /\ keyboard_thread_running
    /\ keyboard_thread_running' = FALSE
    /\ klPc' = "done"
    /\ qRead' = TRUE
    /\ uiMsg' = Nothing
    /\ UNCHANGED <<current_key, keyFresh, gripper_value, gtPc, uiMainPc,
                   command_socket>>
    /\ UNCHANGED uiRest

\* "while keyboard_thread_running:" of keyboard_listener ends; the flag is
\* also cleared at the top of main's "finally" block, whose remainder
\* (device shutdown, sleep) leaves the daemon threads time to see it
KeyListenerExit ==
    /\ klPc = "listening"
    /\ ~keyboard_thread_running
    /\ klPc' = "done"
    /\ uiMsg' = Nothing
    /\ UNCHANGED <<keyboard_thread_running, current_key, keyFresh,
                   gripper_value, gtPc, uiMainPc, qRead, command_socket>>
    /\ UNCHANGED uiRest

\* more than KEY_TIMEOUT passes since the last '1' or '2'
KeyTimePasses ==
    /\ uiMainPc # "done"
    /\ keyFresh
    /\ keyFresh' = FALSE
    /\ uiMsg' = Nothing
    /\ UNCHANGED <<keyboard_thread_running, current_key, gripper_value,
                   klPc, gtPc, uiMainPc, qRead, command_socket>>
    /\ UNCHANGED uiRest

\* "gripper_value = min(1.0, gripper_value + GRIPPER_STEP)"
GripperOpen_mut(g) == g + GRIPPER_STEP
GripperOpen(g) == Min2(GripperMax, g + GRIPPER_STEP)
\* "gripper_value = max(0.0, gripper_value - GRIPPER_STEP)"
GripperClose(g) == Max2(GripperMin, g - GRIPPER_STEP)

\* one iteration of gripper_update_thread
GripperUpdate ==
    /\ uiMainPc # "done"
    /\ gtPc = "running"
    /\ keyboard_thread_running
    /\ current_key' = IF ~keyFresh THEN None ELSE current_key
    /\ gripper_value' =
          IF current_key' = "1" THEN GripperOpen(gripper_value)
          ELSE IF current_key' = "2" THEN GripperClose(gripper_value)
          ELSE gripper_value
    /\ uiMsg' = Nothing
    /\ UNCHANGED <<keyboard_thread_running, keyFresh, klPc, gtPc, uiMainPc,
                   qRead, command_socket>>
    /\ UNCHANGED uiRest

\* "while keyboard_thread_running:" of gripper_update_thread ends
GripperExit ==
    /\ gtPc = "running"
    /\ ~keyboard_thread_running
    /\ gtPc' = "done"
    /\ uiMsg' = Nothing
    /\ UNCHANGED <<keyboard_thread_running, current_key, keyFresh,
                   gripper_value, klPc, uiMainPc, qRead, command_socket>>
    /\ UNCHANGED uiRest

\* one iteration of publisher_loop's "while True": skipped by the online
\* test, or a message with the gripper value read under gripper_lock is sent
UiPublish ==
    /\ uiMainPc = "publishing"
    /\ \E skipped \in BOOLEAN :
          uiMsg' = IF skipped THEN Nothing ELSE Some(gripper_value)
    /\ UNCHANGED <<keyboard_thread_running, current_key, keyFresh,
                   gripper_value, klPc, gtPc, uiMainPc, qRead,
                   command_socket>>
    /\ UNCHANGED uiRest

\* Ctrl+C: publisher_loop returns on KeyboardInterrupt
UiInterrupt ==
    /\ uiMainPc = "publishing"
    /\ uiMainPc' = "cleanup"
    /\ uiMsg' = Nothing
    /\ UNCHANGED <<keyboard_thread_running, current_key, keyFresh,
                   gripper_value, klPc, gtPc, qRead, command_socket>>
    /\ UNCHANGED uiRest

\* the "finally" block of main
UiCleanup ==
    /\ uiMainPc = "cleanup"
    /\ keyboard_thread_running' = FALSE
    /\ uiMainPc' = "done"
    /\ uiMsg' = Nothing
    /\ UNCHANGED <<current_key, keyFresh, gripper_value, klPc, gtPc, qRead,
                   command_socket>>
    /\ UNCHANGED uiRest

\* what the viewer's gripper panel sends: on_gripper_command (open, close,
\* stop) and on_gripper_value_set (slider value, in thousandths)
ViewerCommands ==
    { [type |-> "gripper_command", arg |-> a] : a \in {"open", "close", "stop"} }
      \cup { [type |-> "gripper_value", arg |-> v] : v \in {0, 500, 1000} }

\* on_gripper_command / on_gripper_value_set: command_socket.send_pyobj.
\* The PUSH socket keeps the message until a peer on port 5562 takes it.
ViewerSend ==
    /\ Len(command_socket) < MaxCmds
    /\ \E c \in ViewerCommands : command_socket' = Append(command_socket, c)
    /\ uiMsg' = Nothing
    /\ UNCHANGED <<keyboard_thread_running, current_key, keyFresh,
                   gripper_value, klPc, gtPc, uiMainPc, qRead>>
    /\ UNCHANGED uiRest

UiNext ==
    \/ UiMainStart
    \/ \E key \in {"1", "2"} : KeyPress(key)
    \/ KeyQuit
    \/ KeyListenerExit
    \/ KeyTimePasses
    \/ GripperUpdate
    \/ GripperExit
    \/ UiPublish
    \/ UiInterrupt
    \/ UiCleanup
    \/ ViewerSend

\* The threads run: main, the publishing loop, the gripper thread and the
\* listener's loop test are scheduled; key presses, Ctrl+C, the passing of
\* the key timeout and the viewer's operator are not forced.
UiFairness ==
    /\ WF_vars(UiMainStart)
    /\ WF_vars(UiPublish)
    /\ WF_vars(GripperUpdate)
    /\ WF_vars(GripperExit)
    /\ WF_vars(KeyListenerExit)
    /\ WF_vars(UiCleanup)

(***************************************************************************)
(* Publisher-to-relay streams:                                             *)
(*   triple_imu_rs485_publisher (PUB) -> B_for_triple (SUB, CONFLATE = 1)  *)
(*   UI voice publisher (PUSH, blocking send) -> B_reverse_whole (PULL)    *)
(***************************************************************************)
StreamInit ==
    /\ pubSeq = 0
    /\ subConnected = FALSE
    /\ subPipe = Nothing
    /\ subLast = 0
    /\ pushSeq = 0
    /\ pullPipe = <<>>
    /\ pullLast = 0
    /\ stGot = Nothing

\* a socket with CONFLATE = 1 keeps only the last message
Conflate_mut(pipe, m) == IF pipe = Nothing THEN Some(m) ELSE pipe
Conflate(pipe, m) == Some(m)

\* B_for_triple: socket(zmq.SUB), CONFLATE = 1, connect, SUBSCRIBE ""
SubConnect ==
    /\ ~subConnected
    /\ subConnected' = TRUE
    /\ stGot' = Nothing
    /\ UNCHANGED <<pubSeq, subPipe, subLast, pushSeq, pullPipe, pullLast>>
    /\ UNCHANGED stRest

\* triple_imu_rs485_publisher: pub_socket.send_string(json.dumps(message));
\* a PUB socket drops the message when no subscriber is connected
PubSendString ==
    /\ pubSeq < MaxMsgs
    /\ pubSeq' = pubSeq + 1
    /\ subPipe' = IF subConnected THEN Conflate(subPipe, pubSeq + 1)
                  ELSE subPipe
    /\ stGot' = Nothing
    /\ UNCHANGED <<subConnected, subLast, pushSeq, pullPipe, pullLast>>
    /\ UNCHANGED stRest

\* B_for_triple: message = socket_from_a.recv_string()
SubRecv ==
    /\ subPipe # Nothing
    /\ stGot' = Some([from |-> "sub", msg |-> subPipe[1]])
    /\ subLast' = subPipe[1]
    /\ subPipe' = Nothing
    /\ UNCHANGED <<pubSeq, subConnected, pushSeq, pullPipe, pullLast>>
    /\ UNCHANGED stRest

\* UI voice publisher: socket_to_b.send(pickle.dumps(message_for_b)); the
\* blocking send waits while the pipe is at its high-water mark
PushSend ==
    /\ pushSeq < MaxMsgs
    /\ Len(pullPipe) < Hwm
    /\ pushSeq' = pushSeq + 1
    /\ pullPipe' = Append(pullPipe, pushSeq + 1)
    /\ stGot' = Nothing
    /\ UNCHANGED <<pubSeq, subConnected, subPipe, subLast, pullLast>>
    /\ UNCHANGED stRest

\* B_reverse_whole: data = socket_from_a.recv()
PullRecv ==
    /\ pullPipe # <<>>
    /\ stGot' = Some([from |-> "pull", msg |-> Head(pullPipe)])
    /\ pullLast' = Head(pullPipe)
    /\ pullPipe' = Tail(pullPipe)
    /\ UNCHANGED <<pubSeq, subConnected, subPipe, subLast, pushSeq>>
    /\ UNCHANGED stRest

StreamNext ==
    \/ SubConnect
    \/ PubSendString
    \/ SubRecv
    \/ PushSend
    \/ PullRecv

(***************************************************************************)
(* whole3_2/B_reverse_whole.py : thread_command_handler (A -> B -> C)      *)
(***************************************************************************)
SERVER_B_PORT_FOR_A_COMMAND == 5555
SERVER_B_PORT_FOR_C_COMMAND == 5556
BPorts == {SERVER_B_PORT_FOR_A_COMMAND, SERVER_B_PORT_FOR_C_COMMAND}

BInit ==
    /\ socket_from_a = None
    /\ socket_to_c = None
    /\ bPc = "run"
    /\ portBusy = [p \in BPorts |-> FALSE]
    /\ cConnected = FALSE
    /\ aPipe = <<>>
    /\ bOutcome = "none"
    /\ bFaults = 0

\* another process takes a port that B has not bound (a fault)
EnvTakePort(p) ==
    /\ bFaults < MaxFaults
    /\ ~portBusy[p]
    /\ p = SERVER_B_PORT_FOR_A_COMMAND => socket_from_a # "bound"
    /\ p = SERVER_B_PORT_FOR_C_COMMAND => socket_to_c # "bound"
    /\ portBusy' = [portBusy EXCEPT ![p] = TRUE]
    /\ bFaults' = bFaults + 1
    /\ UNCHANGED <<socket_from_a, socket_to_c, bPc, cConnected, aPipe,
                   bOutcome>>
    /\ UNCHANGED bRest

\* that process releases the port
EnvFreePort(p) ==
    /\ portBusy[p]
    /\ portBusy' = [portBusy EXCEPT ![p] = FALSE]
    /\ UNCHANGED <<socket_from_a, socket_to_c, bPc, cConnected, aPipe,
                   bOutcome, bFaults>>
    /\ UNCHANGED bRest

\* A pushes a command (the pipe holds MaxCommands of them); a payload that
\* neither json.loads nor pickle.loads accepts is a fault
ASend ==
    /\ Len(aPipe) < MaxCommands
    /\ \E ok \in BOOLEAN :
          /\ ~ok => bFaults < MaxFaults
          /\ bFaults' = IF ok THEN bFaults ELSE bFaults + 1
          /\ aPipe' = Append(aPipe, [ok |-> ok])
    /\ UNCHANGED <<socket_from_a, socket_to_c, bPc, portBusy, cConnected,
                   bOutcome>>
    /\ UNCHANGED bRest

\* C connects to the port socket_to_c is bound to
CConnect ==
    /\ socket_to_c = "bound"
    /\ ~cConnected
    /\ cConnected' = TRUE
    /\ UNCHANGED <<socket_from_a, socket_to_c, bPc, portBusy, aPipe,
                   bOutcome, bFaults>>
    /\ UNCHANGED bRest

\* C goes away (a fault); it reconnects later
CDisconnect ==
    /\ cConnected
    /\ bFaults < MaxFaults
    /\ bFaults' = bFaults + 1
    /\ cConnected' = FALSE
    /\ UNCHANGED <<socket_from_a, socket_to_c, bPc, portBusy, aPipe,
                   bOutcome>>
    /\ UNCHANGED bRest

\* a handler that would close and forget socket_to_c as well
OnZMQError_mut(to_c) == None
\* "except zmq.ZMQError": socket_from_a is closed and set to None (commands
\* already in its pipe may be lost with it); socket_to_c is left as it is
OnZMQError(to_c) == to_c

\* "if socket_from_a is None:" socket, setsockopt, bind
BBindA ==
    /\ bPc = "run"
    /\ socket_from_a = None
    /\ IF portBusy[SERVER_B_PORT_FOR_A_COMMAND]
       THEN /\ socket_from_a' = None
            /\ socket_to_c' = OnZMQError(socket_to_c)
            /\ bPc' = "sleep"
       ELSE /\ socket_from_a' = "bound"
            /\ UNCHANGED <<socket_to_c, bPc>>
    /\ UNCHANGED <<portBusy, cConnected, aPipe, bOutcome, bFaults>>
    /\ UNCHANGED bRest

\* "if socket_to_c is None:" socket, bind
BBindC ==
    /\ bPc = "run"
    /\ socket_from_a # None
    /\ socket_to_c = None
    /\ IF portBusy[SERVER_B_PORT_FOR_C_COMMAND]
       THEN /\ socket_to_c' = OnZMQError("unbound")
            /\ socket_from_a' = None
            /\ \E lost \in BOOLEAN :
                  aPipe' = IF lost THEN <<>> ELSE aPipe
            /\ bPc' = "sleep"
       ELSE /\ socket_to_c' = "bound"
            /\ UNCHANGED <<socket_from_a, aPipe, bPc>>
    /\ UNCHANGED <<portBusy, cConnected, bOutcome, bFaults>>
    /\ UNCHANGED bRest

\* recv, TorchSerializer.from_bytes, send(..., zmq.NOBLOCK): the command is
\* forwarded; or zmq.Again (C not connected) and it is dropped; or from_bytes
\* raises and "except Exception" sleeps
BRecvForward ==
    /\ bPc = "run"
    /\ socket_from_a = "bound"
    /\ socket_to_c # None
    /\ aPipe # <<>>
    /\ aPipe' = Tail(aPipe)
    /\ IF ~Head(aPipe).ok
       THEN bPc' = "sleep" /\ bOutcome' = "error"
       ELSE /\ UNCHANGED bPc
            /\ bOutcome' =
                  IF socket_to_c = "bound" /\ cConnected
                  THEN "forwarded" ELSE "dropped"
    /\ UNCHANGED <<socket_from_a, socket_to_c, portBusy, cConnected, bFaults>>
    /\ UNCHANGED bRest

\* recv raises a ZMQError other than zmq.Again (a fault)
BRecvError ==
    /\ bPc = "run"
    /\ socket_from_a = "bound"
    /\ socket_to_c # None
    /\ bFaults < MaxFaults
    /\ bFaults' = bFaults + 1
    /\ socket_from_a' = None
    /\ socket_to_c' = OnZMQError(socket_to_c)
    /\ \E lost \in BOOLEAN : aPipe' = IF lost THEN <<>> ELSE aPipe
    /\ bPc' = "sleep"
    /\ UNCHANGED <<portBusy, cConnected, bOutcome>>
    /\ UNCHANGED bRest

\* time.sleep(1) of an exception handler is over: next "while True" iteration
BWake ==
    /\ bPc = "sleep"
    /\ bPc' = "run"
    /\ UNCHANGED <<socket_from_a, socket_to_c, portBusy, cConnected, aPipe,
                   bOutcome, bFaults>>
    /\ UNCHANGED bRest

BNext ==
    \/ \E p \in BPorts : EnvTakePort(p)
    \/ \E p \in BPorts : EnvFreePort(p)
    \/ ASend
    \/ CConnect
    \/ CDisconnect
    \/ BBindA
    \/ BBindC
    \/ BRecvForward
    \/ BRecvError
    \/ BWake

\* The handler thread runs; a port taken by another process is released; C
\* keeps trying to connect; A keeps sending.  Faults are not forced.
BFairness ==
    /\ WF_vars(ASend)
    /\ WF_vars(BBindA)
    /\ WF_vars(BBindC)
    /\ WF_vars(BRecvForward)
    /\ WF_vars(BWake)
    /\ WF_vars(CConnect)
    /\ \A p \in BPorts : WF_vars(EnvFreePort(p))

(***************************************************************************)
(* whole2/B_for_triple.py : thread_data_from_triple (A -> B -> C)          *)
(***************************************************************************)
PrintEvery == 25

\* The message texts tried.  A text is what json.loads makes of it: a
\* JSONDecodeError, a JSON array, or a JSON object whose "position",
\* "orientation" and "gripper" are absent (<<>>) or present (<<value>>).
JsonNumber(repr) == [type |-> "number", repr |-> repr]
JsonString(repr) == [type |-> "string", repr |-> repr]

TripleTexts ==
    { [kind |-> k, position |-> Nothing, orientation |-> Nothing,
       gripper |-> Nothing] : k \in {"invalid", "array"} }
      \cup { [kind |-> "object", position |-> p, orientation |-> o,
              gripper |-> g] :
                p \in {Nothing, Some(<<301, 0, 250>>), Some(<<301, 0>>)},
                o \in {Nothing, Some(<<0, 0, 100>>)},
                g \in {Nothing, Some(JsonNumber("0.5")),
                       Some(JsonString("open"))} }

\* triple_data.get(key, default)
DictGet(field, default) == IF field = Nothing THEN default ELSE field[1]

IsNumber(v) == v.type = "number"

\* the f-string of the debug print, and the state vector of add_frame:
\* "triple_data.get", "pos[0] .. pos[2]", "ori[0] .. ori[2]", ":.3f"
Formats(text) ==
    /\ text.kind = "object"
    /\ Len(DictGet(text.position, <<0, 0, 0>>)) >= 3
    /\ Len(DictGet(text.orientation, <<0, 0, 0>>)) >= 3
    /\ IsNumber(DictGet(text.gripper, JsonNumber("0.0")))

FwdInit ==
    /\ lerobot_handler = None
    /\ frame_count = 0
    /\ fwdPc = "start"
    /\ fwdParsed = <<>>
    /\ fwdSent = <<>>
    /\ fwdCount = 0

\* "if LeRobotDataset is not None: lerobot_handler = LeRobotDataHandler(...)"
FwdStart ==
    /\ fwdPc = "start"
    /\ \E h \in {None, "handler"} : lerobot_handler' = h
    /\ fwdPc' = "loop"
    /\ UNCHANGED <<frame_count, fwdParsed, fwdSent, fwdCount>>
    /\ UNCHANGED fwdRest

\* the debug print is reached
Prints_mut == FALSE
Prints == lerobot_handler = None \/ frame_count % PrintEvery = 0

\* one iteration that receives a message: recv_string, json.loads, the debug
\* print, add_frame, send_string
FwdRecv ==
    /\ fwdPc = "loop"
    /\ fwdCount < MaxRecv
    /\ fwdCount' = fwdCount + 1
    /\ \E text \in TripleTexts :
          LET message == [id |-> fwdCount + 1, text |-> text]
          IN  IF text.kind = "invalid"
              THEN \* json.JSONDecodeError: continue
                   UNCHANGED <<frame_count, fwdPc, fwdParsed, fwdSent>>
              ELSE /\ fwdParsed' = Append(fwdParsed, message)
                   /\ IF Prints /\ ~Formats(text)
                      THEN \* "except Exception": traceback, time.sleep(1)
                           /\ fwdPc' = "sleep"
                           /\ UNCHANGED <<frame_count, fwdSent>>
                      ELSE /\ frame_count' =
                                 IF lerobot_handler # None /\ Formats(text)
                                 THEN frame_count + 1 ELSE frame_count
                           /\ fwdSent' = Append(fwdSent, message)
                           /\ UNCHANGED fwdPc
    /\ UNCHANGED lerobot_handler
    /\ UNCHANGED fwdRest

\* time.sleep(1) is over: next "while True" iteration
FwdWake ==
    /\ fwdPc = "sleep"
    /\ fwdPc' = "loop"
    /\ UNCHANGED <<lerobot_handler, frame_count, fwdParsed, fwdSent, fwdCount>>
    /\ UNCHANGED fwdRest

FwdNext ==
    \/ FwdStart
    \/ FwdRecv
    \/ FwdWake

(***************************************************************************)
(* The debug feed on port 5560: debug_publisher_thread (send_pyobj) and    *)
(* debug_server.zmq_listener (json.loads(data_bytes.decode('utf-8')))      *)
(***************************************************************************)
DEFAULT_DEBUG_PORT == 5560

\* debug_data: its publish counter and whether a video frame (JPEG bytes)
\* is attached
DebugData(n, video) == [count |-> n, video |-> video]

\* pickle.dumps(obj, protocol) for protocol >= 2: the PROTO opcode 0x80 and
\* the protocol number, the pickled dictionary ("}" EMPTY_DICT, its items;
\* a JPEG starts with FF D8), the STOP opcode "."
PickleDumps(obj, protocol) ==
    <<128, protocol, 125, 48 + obj.count>>
        \o (IF obj.video THEN <<255, 216>> ELSE <<>>) \o <<46>>

\* json.dumps(obj).encode('utf-8'): "{" ... "}"
JsonDumps(obj) == <<123, 48 + obj.count, 125>>

\* socket.send_pyobj(obj)
send_pyobj_mut(obj, protocol) == JsonDumps(obj)
send_pyobj(obj, protocol) == PickleDumps(obj, protocol)

\* bytes.decode('utf-8'): <<text>>, or <<>> for UnicodeDecodeError.  A lead
\* byte is ASCII, or C2..DF, E0..EF, F0..F4 followed by one, two, three
\* continuation bytes 80..BF.
RECURSIVE Utf8Valid(_)
Utf8Valid(b) ==
    IF b = <<>> THEN TRUE
    ELSE LET need == IF b[1] < 128 THEN 0
                     ELSE IF b[1] \in 194..223 THEN 1
                     ELSE IF b[1] \in 224..239 THEN 2
                     ELSE IF b[1] \in 240..244 THEN 3
                     ELSE 4
         IN  /\ need < 4
             /\ Len(b) >= 1 + need
             /\ \A k \in 2..(1 + need) : b[k] \in 128..191
             /\ Utf8Valid(SubSeq(b, 2 + need, Len(b)))
Utf8Decode(b) == IF Utf8Valid(b) THEN Some(b) ELSE Nothing

\* json.loads(text): <<value>>, or <<>> for JSONDecodeError
JsonLoads(text) ==
    IF Len(text) = 3 /\ text[1] = 123 /\ text[2] \in 48..57 /\ text[3] = 125
    THEN Some([count |-> text[2] - 48])
    ELSE Nothing

DebugInit ==
    /\ publish_count = 0
    /\ debugPipe = <<>>
    /\ debugReached = 0
    /\ total_messages = 0
    /\ wsClients = 0
    /\ broadcasts = 0
    /\ listenErrors = 0

\* one iteration of debug_publisher_thread: debug_socket.send_pyobj(debug_data)
\* (a PUB socket drops the message when the subscriber is not connected)
DebugPublish ==
    /\ publish_count < MaxDebug
    /\ publish_count' = publish_count + 1
    /\ \E video \in BOOLEAN, protocol \in {4, 5}, connected \in BOOLEAN :
          debugPipe' =
             IF connected
             THEN Append(debugPipe,
                         send_pyobj(DebugData(publish_count + 1, video),
                                    protocol))
             ELSE debugPipe
    /\ UNCHANGED <<debugReached, total_messages, wsClients, broadcasts,
                   listenErrors>>
    /\ UNCHANGED dbgRest

\* a WebSocket client connects to or leaves debug_server
WsClient ==
    /\ wsClients' = 1 - wsClients
    /\ UNCHANGED <<publish_count, debugPipe, debugReached, total_messages,
                   broadcasts, listenErrors>>
    /\ UNCHANGED dbgRest

\* one iteration of zmq_listener: recv, decode, json.loads, process_data,
\* broadcast; "except Exception" prints and sleeps
DebugListen ==
    /\ debugPipe # <<>>
    /\ debugPipe' = Tail(debugPipe)
    /\ debugReached' = debugReached + 1
    /\ LET text == Utf8Decode(Head(debugPipe))
           data == IF text = Nothing THEN Nothing ELSE JsonLoads(text[1])
       IN  IF data = Nothing
           THEN /\ listenErrors' = listenErrors + 1
                /\ UNCHANGED <<total_messages, broadcasts>>
           ELSE /\ total_messages' = total_messages + 1
                /\ broadcasts' = IF wsClients > 0 THEN broadcasts + 1
                                 ELSE broadcasts
                /\ UNCHANGED listenErrors
    /\ UNCHANGED <<publish_count, wsClients>>
    /\ UNCHANGED dbgRest

DebugNext ==
    \/ DebugPublish
    \/ WsClient
    \/ DebugListen

(***************************************************************************)
(* The coordinate remap as each of the four publisher scripts writes it    *)
(***************************************************************************)
\* triple_imu_rs485_publisher_dual_cam_UI_voice.py has its own parameters
UI_X_RAW_MIN == 390
UI_X_RAW_MAX == 520
UI_Y_RAW_MIN == -400
UI_Y_RAW_MAX == 400
UI_Z_RAW_MIN == 0
UI_Z_RAW_MAX == 300
UI_X_TARGET_MIN == 220
UI_X_TARGET_MAX == 420
UI_Y_TARGET_MIN == -200
UI_Y_TARGET_MAX == 200
UI_Z_TARGET_MIN == 100
UI_Z_TARGET_MAX == 400

\* dual_imu_publisher.publisher_loop: the ranges are literals (m -> mm)
RemapDual(pos) ==
    <<MapAxis(pos[1], 0, 550, 220, 350),
      MapAxis(pos[2], -400, 400, -200, 200),
      MapAxis(pos[3], 0, 300, 160, 360)>>

\* triple_imu_publisher.publisher_loop: the same literals
RemapTriple(pos) ==
    <<MapAxis(pos[1], 0, 550, 220, 350),
      MapAxis(pos[2], -400, 400, -200, 200),
      MapAxis(pos[3], 0, 300, 160, 360)>>

\* the UI voice publisher with the ranges of dual_imu_publisher
RemapUIVoice_mut(pos) == RemapDual(pos)
\* triple_imu_rs485_publisher_dual_cam_UI_voice.publisher_loop
RemapUIVoice(pos) ==
    <<MapAxis(pos[1], UI_X_RAW_MIN, UI_X_RAW_MAX,
              UI_X_TARGET_MIN, UI_X_TARGET_MAX),
      MapAxis(pos[2], UI_Y_RAW_MIN, UI_Y_RAW_MAX,
              UI_Y_TARGET_MIN, UI_Y_TARGET_MAX),
      MapAxis(pos[3], UI_Z_RAW_MIN, UI_Z_RAW_MAX,
              UI_Z_TARGET_MIN, UI_Z_TARGET_MAX)>>

PublisherScripts ==
    {"dual_imu_publisher", "triple_imu_publisher",
     "triple_imu_rs485_publisher",
     "triple_imu_rs485_publisher_dual_cam_UI_voice"}

RemapOf(script, pos) ==
    IF script = "dual_imu_publisher" THEN RemapDual(pos)
    ELSE IF script = "triple_imu_publisher" THEN RemapTriple(pos)
    ELSE IF script = "triple_imu_rs485_publisher" THEN Remap(pos)
    ELSE RemapUIVoice(pos)

CompareInit ==
    /\ cmpPos = FallbackPos
    /\ cmpMapped = Nothing

\* the same computed end-effector position reaches every script's remap
CompareKinematics ==
    /\ \E p \in KinematicsResults \cup {FallbackPos} : cmpPos' = p
    /\ cmpMapped' = Nothing
    /\ UNCHANGED cmpRest

\* each script's "x_raw = np.clip(...)" ... "z_mapped = ..."
CompareApply ==
    /\ cmpMapped = Nothing
    /\ cmpMapped' = Some([s \in PublisherScripts |-> RemapOf(s, cmpPos)])
    /\ UNCHANGED cmpPos
    /\ UNCHANGED cmpRest

CompareNext ==
    \/ CompareKinematics
    \/ CompareApply

(***************************************************************************)
(* normalize_yaw_angle called frame after frame, as data_callback does     *)
(***************************************************************************)
YawModes == {"NORMAL", "AUTO", "SIMPLE", "OFF"}

\* raw yaw angles of the sensor, -180.00 .. +180.00 degrees
YawValues ==
    { y \in (-HalfTurn)..HalfTurn : y % YawStep = 0 }
        \cup {-HalfTurn, -HalfTurn + 1, -1, 1, HalfTurn - 1, HalfTurn}

YawInit ==
    /\ yawMode = None
    /\ yawRaw = 0
    /\ yawOffset = Nothing
    /\ yawResult = Nothing

\* the module is loaded with one of the documented modes
YawConfigure ==
    /\ yawMode = None
    /\ \E m \in YawModes : yawMode' = m
    /\ UNCHANGED <<yawRaw, yawOffset, yawResult>>
    /\ UNCHANGED yawRest

\* "yaw_raw = data.get('AngZ')": the next frame of the IMU
YawFrame ==
    /\ yawMode # None
    /\ \E y \in YawValues : yawRaw' = y
    /\ yawResult' = Nothing
    /\ UNCHANGED <<yawMode, yawOffset>>
    /\ UNCHANGED yawRest

\* "yaw_normalized, imuN_yaw_offset = normalize_yaw_angle(yaw_raw,
\*  imuN_yaw_offset, ...)"
YawNormalize ==
    /\ yawMode # None
    /\ yawResult = Nothing
    /\ LET r == normalize_yaw_angle_mode(yawMode, yawRaw, yawOffset)
       IN  /\ yawResult' = Some(r[1])
           /\ yawOffset' = r[2]
    /\ UNCHANGED <<yawMode, yawRaw>>
    /\ UNCHANGED yawRest

YawNext ==
    \/ YawConfigure
    \/ YawFrame
    \/ YawNormalize

(***************************************************************************)
(* check_devices.py : calculate_crc16_modbus, create_modbus_request;       *)
(* simple_serial_test.py : calculate_crc and the command assembly          *)
(***************************************************************************)
CrcInit == 65535         \* 0xFFFF
CrcPoly == 40961         \* 0xA001
FuncCode == 3            \* func_code = 0x03

\* a ^ b on non-negative integers
RECURSIVE BitXor(_, _)
BitXor(a, b) ==
    IF a = 0 THEN b
    ELSE IF b = 0 THEN a
    ELSE (((a % 2) + (b % 2)) % 2) + 2 * BitXor(a \div 2, b \div 2)

\* one round of "for _ in range(8)": "if crc & 0x0001: crc >>= 1;
\* crc ^= 0xA001 else: crc >>= 1"
CrcRound(crc) ==
    IF crc % 2 = 1 THEN BitXor(crc \div 2, CrcPoly) ELSE crc \div 2

\* "crc ^= byte" and the eight rounds
CrcByte(crc, byte) ==
    CrcRound(CrcRound(CrcRound(CrcRound(
       CrcRound(CrcRound(CrcRound(CrcRound(BitXor(crc, byte)))))))))

\* "for byte in data: ..."; the bound c holds the value of crc after the
\* byte, so that each byte starts from a number and not from an expression
RECURSIVE CrcBytes(_, _)
CrcBytes(crc, data) ==
    IF data = <<>> THEN crc
    ELSE CHOOSE r \in { CrcBytes(c, Tail(data)) :
                           c \in {CrcByte(crc, Head(data))} } : TRUE

\* check_devices.calculate_crc16_modbus
calculate_crc16_modbus(data) == CrcBytes(CrcInit, data)

\* simple_serial_test.calculate_crc
calculate_crc(data) == CrcBytes(CrcInit, data)

\* struct.pack('>H', v)
PackBE16(v) == <<v \div 256, v % 256>>
\* the CRC appended high byte first
PackLE16_mut(v) == PackBE16(v)
\* struct.pack('<H', v)
PackLE16(v) == <<v % 256, v \div 256>>

\* request = struct.pack('>BBHH', device_addr, func_code, start_reg,
\*                       num_regs); request += struct.pack('<H', crc)
create_modbus_request(addr, start, num) ==
    LET body == <<addr, FuncCode>> \o PackBE16(start) \o PackBE16(num)
    IN  body \o PackLE16(calculate_crc16_modbus(body))

\* simple_serial_test: "full_command = cmd_data + [crc & 0xFF,
\*                                                 (crc >> 8) & 0xFF]"
full_command(cmd_data) ==
    LET crc == calculate_crc(cmd_data)
    IN  cmd_data \o <<crc % 256, (crc \div 256) % 256>>

\* simple_serial_test's test_commands
test_commands ==
    { <<80, 3, 0, 52, 0, 12>>, <<80, 3, 0, 48, 0, 12>>,
      <<81, 3, 0, 52, 0, 12>> }

\* arguments struct.pack accepts: one byte and two 16-bit values
ModbusAddrs == {0, 1, 80, 81, 82, 255}
ModbusRegs == {0, 48, 52, 255, 256, 43981, 65535}
ModbusCounts == {0, 1, 10, 12, 4660, 65535}

ModbusInit ==
    /\ device_addr = 80
    /\ start_reg = 52
    /\ num_regs = 12
    /\ request = Nothing

\* a caller chooses the fields of the next request
ModbusArguments ==
    /\ \E a \in ModbusAddrs, s \in ModbusRegs, n \in ModbusCounts :
          /\ device_addr' = a
          /\ start_reg' = s
          /\ num_regs' = n
    /\ request' = Nothing
    /\ UNCHANGED mbRest

\* "request = create_modbus_request(device_addr, ...)"
ModbusCreate ==
    /\ request = Nothing
    /\ request' = Some(create_modbus_request(device_addr, start_reg, num_regs))
    /\ UNCHANGED <<device_addr, start_reg, num_regs>>
    /\ UNCHANGED mbRest

ModbusNext ==
    \/ ModbusArguments
    \/ ModbusCreate

(***************************************************************************)
(* zmq_base.py : BaseInferenceClient.ping on its REQ socket                *)
(***************************************************************************)
PingInit ==
    /\ reqState = "ready"
    /\ serverUp = FALSE
    /\ replyQueued = FALSE
    /\ pingCalls = 0
    /\ repliesReceived = 0
    /\ pingReturned = Nothing
    /\ pingGotReply = FALSE

\* the server comes up or goes away between two calls
ServerChange ==
    /\ serverUp' = ~serverUp
    /\ UNCHANGED <<reqState, replyQueued, pingCalls, repliesReceived,
                   pingReturned, pingGotReply>>
    /\ UNCHANGED pingRest

\* the server answers a request after the 1 second poll has given up
LateReply ==
    /\ reqState = "awaiting"
    /\ serverUp
    /\ ~replyQueued
    /\ replyQueued' = TRUE
    /\ UNCHANGED <<reqState, serverUp, pingCalls, repliesReceived,
                   pingReturned, pingGotReply>>
    /\ UNCHANGED pingRest

\* a handler that reports the failure
PingExcept_mut == FALSE
\* "except: return True"
PingExcept == TRUE

\* one call of ping.  socket.send(..., flags=zmq.NOBLOCK) raises when the REQ
\* socket still awaits the reply to an earlier request (EFSM) or has no peer
\* (zmq.Again); otherwise the request is sent and poll(1000) either sees a
\* reply, which recv() takes (or fails to take), or times out.
Ping ==
    /\ pingCalls < MaxPings
    /\ pingCalls' = pingCalls + 1
    /\ IF reqState = "awaiting" \/ ~serverUp
       THEN /\ pingReturned' = Some(PingExcept)
            /\ pingGotReply' = FALSE
            /\ UNCHANGED <<reqState, replyQueued, repliesReceived>>
       ELSE \E outcome \in {"reply", "recvError", "timeout"} :
               IF outcome = "reply"
               THEN /\ reqState' = "ready"
                    /\ replyQueued' = FALSE
                    /\ repliesReceived' = repliesReceived + 1
                    /\ pingReturned' = Some(TRUE)
                    /\ pingGotReply' = TRUE
               ELSE IF outcome = "recvError"
               THEN /\ reqState' = "awaiting"
                    /\ replyQueued' = TRUE
                    /\ pingReturned' = Some(PingExcept)
                    /\ pingGotReply' = FALSE
                    /\ UNCHANGED repliesReceived
               ELSE /\ reqState' = "awaiting"
                    /\ pingReturned' = Some(FALSE)
                    /\ pingGotReply' = FALSE
                    /\ UNCHANGED <<replyQueued, repliesReceived>>
    /\ UNCHANGED serverUp
    /\ UNCHANGED pingRest

PingNext ==
    \/ ServerChange
    \/ LateReply
    \/ Ping

(***************************************************************************)
(* zmq_base.py : TorchSerializer.to_bytes / from_bytes                     *)
(*                                                                         *)
(* Python objects are [type, keys, items]: an int (one digit, in items),   *)
(* a str of digit characters, a list, tuple or bytes of digits, or a dict  *)
(* whose keys are [kt |-> "str" or "int", k |-> digit].                    *)
(***************************************************************************)
PyDigits == 0..MaxItem
PySeqs == UNION { [1..n -> PyDigits] : n \in 0..MaxLen }
PyObj(type, keys, items) == [type |-> type, keys |-> keys, items |-> items]
PyObjects ==
    { PyObj("int", <<>>, <<d>>) : d \in PyDigits }
      \cup { PyObj(t, <<>>, s) : t \in {"str", "list", "tuple", "bytes"},
                                 s \in PySeqs }
      \cup { PyObj("dict", <<>>, <<>>) }
      \cup { PyObj("dict", <<[kt |-> kt, k |-> k]>>, <<v>>) :
                kt \in {"str", "int"}, k \in PyDigits, v \in PyDigits }

\* the characters of "d0, d1, ..." and of '"k0": v0, ...'
RECURSIVE JoinItems(_)
JoinItems(items) ==
    IF items = <<>> THEN <<>>
    ELSE <<48 + Head(items)>>
           \o (IF Len(items) > 1 THEN <<44, 32>> ELSE <<>>)
           \o JoinItems(Tail(items))
RECURSIVE JoinPairs(_, _)
JoinPairs(keys, items) ==
    IF keys = <<>> THEN <<>>
    ELSE <<34, 48 + Head(keys).k, 34, 58, 32, 48 + Head(items)>>
           \o (IF Len(keys) > 1 THEN <<44, 32>> ELSE <<>>)
           \o JoinPairs(Tail(keys), Tail(items))

\* json.dumps(data).encode('utf-8'): <<bytes>>, or <<>> for the TypeError
\* raised for bytes.  A tuple is written as an array, a dict key as a string.
json_dumps(data) ==
    IF data.type = "int" THEN Some(<<48 + data.items[1]>>)
    ELSE IF data.type = "str"
         THEN Some(<<34>> \o [i \in 1..Len(data.items) |-> 48 + data.items[i]]
                     \o <<34>>)
    ELSE IF data.type \in {"list", "tuple"}
         THEN Some(<<91>> \o JoinItems(data.items) \o <<93>>)
    ELSE IF data.type = "dict"
         THEN Some(<<123>> \o JoinPairs(data.keys, data.items) \o <<125>>)
    ELSE Nothing

TypeCode(type) ==
    CASE type = "int" -> 75
      [] type = "str" -> 140
      [] type = "list" -> 93
      [] type = "tuple" -> 41
      [] type = "bytes" -> 67
      [] type = "dict" -> 125
TypeOfCode(code) == CHOOSE t \in {"int", "str", "list", "tuple", "bytes", "dict"} :
                       TypeCode(t) = code

\* pickle.dumps(data): PROTO 0x80 and the protocol number, the opcode of the
\* type, the number of keys, each key (its type opcode and digit), the
\* items, STOP "."
pickle_dumps(data) ==
    <<128, 4, TypeCode(data.type), Len(data.keys)>>
      \o (IF data.keys = <<>> THEN <<>>
          ELSE <<TypeCode(data.keys[1].kt), data.keys[1].k>>)
      \o data.items \o <<46>>

\* pickle.loads(data)
pickle_loads(data) ==
    LET nkeys == data[4]
        first == 5 + 2 * nkeys
    IN  PyObj(TypeOfCode(data[3]),
              IF nkeys = 0 THEN <<>>
              ELSE <<[kt |-> TypeOfCode(data[5]), k |-> data[6]]>>,
              SubSeq(data, first, Len(data) - 1))

IsDigitChar(c) == c \in 48..57
DigitsOf(text) ==
    LET ds == SelectSeq(text, IsDigitChar)
    IN  [i \in 1..Len(ds) |-> ds[i] - 48]

\* json.loads(text): <<object>>, or <<>> for JSONDecodeError
json_loads(text) ==
    IF text = <<>> THEN Nothing
    ELSE IF Len(text) = 1 /\ IsDigitChar(text[1])
         THEN Some(PyObj("int", <<>>, DigitsOf(text)))
    ELSE IF text[1] = 34 /\ text[Len(text)] = 34 /\ Len(text) >= 2
         THEN Some(PyObj("str", <<>>, DigitsOf(text)))
    ELSE IF text[1] = 91 /\ text[Len(text)] = 93
         THEN Some(PyObj("list", <<>>, DigitsOf(text)))
    ELSE IF text[1] = 123 /\ text[Len(text)] = 125
         THEN LET ds == DigitsOf(text)
              IN  Some(PyObj("dict",
                             IF ds = <<>> THEN <<>>
                             ELSE <<[kt |-> "str", k |-> ds[1]]>>,
                             IF ds = <<>> THEN <<>> ELSE <<ds[2]>>))
    ELSE Nothing

\* to_bytes that always pickles
to_bytes_mut(data) == pickle_dumps(data)
\* "try: return json.dumps(data).encode('utf-8')
\*  except: return pickle.dumps(data)"
to_bytes(data) ==
    IF json_dumps(data) # Nothing THEN json_dumps(data)[1]
    ELSE pickle_dumps(data)

\* "try: return json.loads(data.decode('utf-8'))
\*  except: return pickle.loads(data)"
from_bytes(data) ==
    LET text == Utf8Decode(data)
        parsed == IF text = Nothing THEN Nothing ELSE json_loads(text[1])
    IN  IF parsed # Nothing THEN parsed[1] ELSE pickle_loads(data)

SerializerInit ==
    /\ tsObject = PyObj("dict", <<>>, <<>>)
    /\ tsBytes = Nothing
    /\ tsBack = Nothing

\* a caller has an object to send
SerializerObject ==
    /\ \E x \in PyObjects : tsObject' = x
    /\ tsBytes' = Nothing
    /\ tsBack' = Nothing
    /\ UNCHANGED tsRest

\* the sender: TorchSerializer.to_bytes(data)
SerializerToBytes ==
    /\ tsBytes = Nothing
    /\ tsBytes' = Some(to_bytes(tsObject))
    /\ UNCHANGED <<tsObject, tsBack>>
    /\ UNCHANGED tsRest

\* the receiver: TorchSerializer.from_bytes(message)
SerializerFromBytes ==
    /\ tsBytes # Nothing
    /\ tsBack = Nothing
    /\ tsBack' = Some(from_bytes(tsBytes[1]))
    /\ UNCHANGED <<tsObject, tsBytes>>
    /\ UNCHANGED tsRest

SerializerNext ==
    \/ SerializerObject
    \/ SerializerToBytes
    \/ SerializerFromBytes

(***************************************************************************)
(* lerobot_zeroMQ_imu.py : zmq_receiver thread and the viewer's control    *)
(* loop, one statement per step                                            *)
(***************************************************************************)
HandoverInit ==
    /\ lock = None
    /\ received_data = Nothing
    /\ new_data_available = FALSE
    /\ rxPc = "recv"
    /\ rxData = Nothing
    /\ rxCount = 0
    /\ stored = 0
    /\ loopPc = "idle"
    /\ applied = <<>>
    /\ overwritten = {}

\* "message = socket.recv_string(); data = json.loads(message)": a pose
\* message, or the JSON text null; a text that does not parse is dropped by
\* "except json.JSONDecodeError"
RxRecv ==
    /\ rxPc = "recv"
    /\ rxCount < MaxHandover
    /\ rxCount' = rxCount + 1
    /\ \E kind \in {"pose", "null", "invalid"} :
          /\ rxData' = IF kind = "pose" THEN Some(rxCount + 1) ELSE Nothing
          /\ rxPc' = IF kind = "invalid" THEN "recv" ELSE "lock"
    /\ UNCHANGED <<lock, received_data, new_data_available, stored, loopPc,
                   applied,
                   overwritten>>
    /\ UNCHANGED hoRest

\* "with lock:" of zmq_receiver
RxLock ==
    /\ rxPc = "lock"
    /\ lock = None
    /\ lock' = "receiver"
    /\ rxPc' = "store"
    /\ UNCHANGED <<received_data, new_data_available, rxData, rxCount, stored,
                   loopPc, applied,
                   overwritten>>
    /\ UNCHANGED hoRest

\* "received_data = data"
RxStore ==
    /\ rxPc = "store"
    /\ received_data' = rxData
    /\ stored' = rxCount
    /\ overwritten' =
          IF new_data_available /\ received_data # Nothing
          THEN overwritten \cup {received_data[1]} ELSE overwritten
    /\ rxPc' = "flag"
    /\ UNCHANGED <<lock, new_data_available, rxData, rxCount, loopPc, applied>>
    /\ UNCHANGED hoRest

\* "new_data_available = True"
RxFlag ==
    /\ rxPc = "flag"
    /\ new_data_available' = TRUE
    /\ rxPc' = "unlock"
    /\ UNCHANGED <<lock, received_data, rxData, rxCount, stored, loopPc,
                   applied,
                   overwritten>>
    /\ UNCHANGED hoRest

\* the end of zmq_receiver's "with lock:"
RxUnlock ==
    /\ rxPc = "unlock"
    /\ lock' = IF lock = "receiver" THEN None ELSE lock
    /\ rxPc' = "recv"
    /\ UNCHANGED <<received_data, new_data_available, rxData, rxCount, stored,
                   loopPc, applied,
                   overwritten>>
    /\ UNCHANGED hoRest

\* the control loop's block entered without taking the lock
LoopLock_mut ==
    /\ loopPc = "idle"
    /\ loopPc' = "check"
    /\ UNCHANGED <<lock, received_data, new_data_available, rxPc, rxData,
                   rxCount, stored, applied,
                   overwritten>>
    /\ UNCHANGED hoRest

\* "with lock:" of the control loop
LoopLock ==
    /\ loopPc = "idle"
    /\ lock = None
    /\ lock' = "loop"
    /\ loopPc' = "check"
    /\ UNCHANGED <<received_data, new_data_available, rxPc, rxData, rxCount,
                   stored, applied,
                   overwritten>>
    /\ UNCHANGED hoRest

\* "if new_data_available and received_data is not None:" and the update of
\* target_gpos from received_data
LoopCheck ==
    /\ loopPc = "check"
    /\ IF new_data_available /\ received_data # Nothing
       THEN /\ applied' = Append(applied, received_data[1])
            /\ loopPc' = "clear"
       ELSE /\ loopPc' = "unlock"
            /\ UNCHANGED applied
    /\ UNCHANGED <<lock, received_data, new_data_available, rxPc, rxData,
                   rxCount, stored,
                   overwritten>>
    /\ UNCHANGED hoRest

\* "new_data_available = False"
LoopClear ==
    /\ loopPc = "clear"
    /\ new_data_available' = FALSE
    /\ loopPc' = "unlock"
    /\ UNCHANGED <<lock, received_data, rxPc, rxData, rxCount, stored,
                   applied,
                   overwritten>>
    /\ UNCHANGED hoRest

\* the end of the control loop's "with lock:"; inverse kinematics and the
\* simulation step follow outside the lock
LoopUnlock ==
    /\ loopPc = "unlock"
    /\ lock' = IF lock = "loop" THEN None ELSE lock
    /\ loopPc' = "idle"
    /\ UNCHANGED <<received_data, new_data_available, rxPc, rxData, rxCount,
                   stored, applied,
                   overwritten>>
    /\ UNCHANGED hoRest

HandoverNext ==
    \/ RxRecv
    \/ RxLock
    \/ RxStore
    \/ RxFlag
    \/ RxUnlock
    \/ LoopLock
    \/ LoopCheck
    \/ LoopClear
    \/ LoopUnlock

(***************************************************************************)
(* triple_imu_rs485_publisher.py : main from pub_socket.bind to its exit   *)
(***************************************************************************)
\* the PUB socket has just been bound
ExitInit ==
    /\ exPc = "create"
    /\ rs485_device = None
    /\ isOpen = FALSE
    /\ loopRead = FALSE
    /\ published = 0
    /\ wasOpen = FALSE
    /\ deviceCloses = 0
    /\ socketCloses = 0
    /\ contextTerms = 0
    /\ exitHow = None

\* "rs485_device = device_model.DeviceModel(...)"
ExitCreateDevice ==
    /\ exPc = "create"
    /\ rs485_device' = "device"
    /\ exPc' = "open"
    /\ UNCHANGED <<isOpen, loopRead, published, wasOpen, deviceCloses,
                   socketCloses, contextTerms, exitHow>>
    /\ UNCHANGED exRest

\* "rs485_device.openDevice(); if not rs485_device.isOpen: ...; return"
ExitOpenDevice ==
    /\ exPc = "open"
    /\ \E opened \in BOOLEAN :
          /\ isOpen' = opened
          /\ exPc' = IF opened THEN "start" ELSE "finally"
    /\ UNCHANGED <<rs485_device, loopRead, published, wasOpen, deviceCloses,
                   socketCloses, contextTerms, exitHow>>
    /\ UNCHANGED exRest

\* "rs485_device.startLoopRead()"
ExitStartLoopRead ==
    /\ exPc = "start"
    /\ loopRead' = TRUE
    /\ exPc' = "wait"
    /\ UNCHANGED <<rs485_device, isOpen, published, wasOpen, deviceCloses,
                   socketCloses, contextTerms, exitHow>>
    /\ UNCHANGED exRest

\* the yaw offsets are all recorded: the wait ends, publisher_loop is called
ExitWaitDone ==
    /\ exPc = "wait"
    /\ exPc' = "publish"
    /\ UNCHANGED <<rs485_device, isOpen, loopRead, published, wasOpen,
                   deviceCloses, socketCloses, contextTerms, exitHow>>
    /\ UNCHANGED exRest

\* one iteration of publisher_loop
ExitPublish ==
    /\ exPc = "publish"
    /\ published < MaxPublished
    /\ published' = published + 1
    /\ UNCHANGED <<exPc, rs485_device, isOpen, loopRead, wasOpen,
                   deviceCloses, socketCloses, contextTerms, exitHow>>
    /\ UNCHANGED exRest

\* Ctrl+C during the start-up wait or during publishing:
\* "except KeyboardInterrupt"
ExitInterrupt ==
    /\ exPc \in {"wait", "publish"}
    /\ exPc' = "finally"
    /\ UNCHANGED <<rs485_device, isOpen, loopRead, published, wasOpen,
                   deviceCloses, socketCloses, contextTerms, exitHow>>
    /\ UNCHANGED exRest

\* any other exception inside the "try": "except Exception"
ExitException ==
    /\ exPc \in {"create", "open", "start", "wait", "publish"}
    /\ exPc' = "finally"
    /\ UNCHANGED <<rs485_device, isOpen, loopRead, published, wasOpen,
                   deviceCloses, socketCloses, contextTerms, exitHow>>
    /\ UNCHANGED exRest

\* "finally: if rs485_device and rs485_device.isOpen:
\*              rs485_device.stopLoopRead()"
FinallyStopDevice ==
    /\ exPc = "finally"
    /\ wasOpen' = (rs485_device # None /\ isOpen)
    /\ IF rs485_device # None /\ isOpen
       THEN loopRead' = FALSE /\ exPc' = "sleep"
       ELSE exPc' = "closeSocket" /\ UNCHANGED loopRead
    /\ UNCHANGED <<rs485_device, isOpen, published, deviceCloses,
                   socketCloses, contextTerms, exitHow>>
    /\ UNCHANGED exRest

\* the "finally" block's sleep is never interrupted
SleepOutcomes_mut == {"slept"}
\* "time.sleep(0.5)" returns, or Ctrl+C raises KeyboardInterrupt in it
SleepOutcomes == {"slept", "KeyboardInterrupt"}

\* "time.sleep(0.5)" of the "finally" block: an exception raised here leaves
\* main at once
FinallySleep ==
    /\ exPc = "sleep"
    /\ \E outcome \in SleepOutcomes :
          IF outcome = "slept"
          THEN exPc' = "closeDevice" /\ UNCHANGED exitHow
          ELSE exPc' = "exited" /\ exitHow' = "raised"
    /\ UNCHANGED <<rs485_device, isOpen, loopRead, published, wasOpen,
                   deviceCloses, socketCloses, contextTerms>>
    /\ UNCHANGED exRest

\* "rs485_device.closeDevice()"
FinallyCloseDevice ==
    /\ exPc = "closeDevice"
    /\ isOpen' = FALSE
    /\ deviceCloses' = deviceCloses + 1
    /\ exPc' = "closeSocket"
    /\ UNCHANGED <<rs485_device, loopRead, published, wasOpen, socketCloses,
                   contextTerms, exitHow>>
    /\ UNCHANGED exRest

\* "pub_socket.close()"
FinallyCloseSocket ==
    /\ exPc = "closeSocket"
    /\ socketCloses' = socketCloses + 1
    /\ exPc' = "term"
    /\ UNCHANGED <<rs485_device, isOpen, loopRead, published, wasOpen,
                   deviceCloses, contextTerms, exitHow>>
    /\ UNCHANGED exRest

\* "zmq_context.term()" and the rest of the "finally" block
FinallyTerm ==
    /\ exPc = "term"
    /\ contextTerms' = contextTerms + 1
    /\ exPc' = "exited"
    /\ exitHow' = "returned"
    /\ UNCHANGED <<rs485_device, isOpen, loopRead, published, wasOpen,
                   deviceCloses, socketCloses>>
    /\ UNCHANGED exRest

ExitNext ==
    \/ ExitCreateDevice
    \/ ExitOpenDevice
    \/ ExitStartLoopRead
    \/ ExitWaitDone
    \/ ExitPublish
    \/ ExitInterrupt
    \/ ExitException
    \/ FinallyStopDevice
    \/ FinallySleep
    \/ FinallyCloseDevice
    \/ FinallyCloseSocket
    \/ FinallyTerm

(***************************************************************************)
(* Specifications                                                          *)
(***************************************************************************)
Init ==
    /\ PubInit
    /\ RemapInit
    /\ UiInit
    /\ StreamInit
    /\ BInit
    /\ FwdInit
    /\ DebugInit
    /\ CompareInit
    /\ YawInit
    /\ ModbusInit
    /\ PingInit
    /\ SerializerInit
    /\ HandoverInit
    /\ ExitInit

SpecPub == Init /\ [][PubNext]_vars
SpecRemap == Init /\ [][RemapNext]_vars
SpecUI == Init /\ [][UiNext]_vars /\ UiFairness
SpecStream == Init /\ [][StreamNext]_vars
SpecB == Init /\ [][BNext]_vars /\ BFairness
SpecFwd == Init /\ [][FwdNext]_vars
SpecDebug == Init /\ [][DebugNext]_vars
SpecCompare == Init /\ [][CompareNext]_vars
SpecYaw == Init /\ [][YawNext]_vars
SpecModbus == Init /\ [][ModbusNext]_vars
SpecPing == Init /\ [][PingNext]_vars
SpecSerializer == Init /\ [][SerializerNext]_vars
SpecHandover == Init /\ [][HandoverNext]_vars
SpecExit == Init /\ [][ExitNext]_vars

C4_EveryAccessLocked == \A a \in access : a.locked

\* C4 as the code has it: an access holds imu_data_lock exactly when it is
\* made by data_callback (all the writes) or is the publishing loop's copy
\* of the Euler dictionaries; the publishing loop's reads of the last-update
\* timestamps and of the yaw offsets, and main's wait on the yaw offsets,
\* are made without the lock.
C4_WritesAndEulerCopyLocked ==
    \A a \in access :
       a.locked <=> (a.who = "callback" \/ a.var = "euler")

\* the callback writes IMU state while the publishing loop waits for the lock
C4_Witness ==
    /\ pubPc = "lock"
    /\ mainPc = "publish"
    /\ \E a \in access : a.who = "callback" /\ a.kind = "write" /\ a.locked

\* C10: every mapped coordinate lies inside its target interval, whatever
\* position the kinematics returned (outside the raw workspace and the
\* [0, 0, 0] fallback included), and the raw minimum and maximum map exactly
\* to the target minimum and maximum.
InTarget(m, tMin, tMax) ==
    /\ m.den > 0
    /\ tMin * m.den <= m.num
    /\ m.num <= tMax * m.den
EndPoints(v, m, rawMin, rawMax, tMin, tMax) ==
    /\ v = rawMin => m.num = tMin * m.den
    /\ v = rawMax => m.num = tMax * m.den
C10_RemapWithinTarget ==
    rmMapped # Nothing =>
       LET m == rmMapped[1]
       IN  /\ InTarget(m[1], X_TARGET_MIN, X_TARGET_MAX)
           /\ InTarget(m[2], Y_TARGET_MIN, Y_TARGET_MAX)
           /\ InTarget(m[3], Z_TARGET_MIN, Z_TARGET_MAX)
           /\ EndPoints(rmPos[1], m[1], X_RAW_MIN, X_RAW_MAX,
                        X_TARGET_MIN, X_TARGET_MAX)
           /\ EndPoints(rmPos[2], m[2], Y_RAW_MIN, Y_RAW_MAX,
                        Y_TARGET_MIN, Y_TARGET_MAX)
           /\ EndPoints(rmPos[3], m[3], Z_RAW_MIN, Z_RAW_MAX,
                        Z_TARGET_MIN, Z_TARGET_MAX)

\* a position outside the raw workspace on every axis has been mapped
C10_Witness ==
    /\ rmMapped # Nothing
    /\ rmPos[1] < X_RAW_MIN
    /\ rmPos[2] > Y_RAW_MAX
    /\ rmPos[3] < Z_RAW_MIN



\* C2: once keyboard_listener has read 'q', main reaches its cleanup block
\* (publisher_loop has stopped sending) without any further user action.
C2_QuitReachesCleanup == qRead ~> (uiMainPc \in {"cleanup", "done"})

\* C3: gripper_value is never below 0.0 nor above 1.0, and every gripper
\* value placed in a published message is within that range.
C3_GripperInRange ==
    /\ gripper_value >= GripperMin
    /\ gripper_value <= GripperMax
    /\ uiMsg # Nothing => (uiMsg[1] >= GripperMin /\ uiMsg[1] <= GripperMax)

\* '1' is held with the gripper fully open, and that value is published
C3_Witness ==
    /\ current_key = "1"
    /\ gripper_value = GripperMax
    /\ uiMsg = Some(GripperMax)

\* C9: a gripper value the viewer has sent to port 5562 is eventually
\* received by the main program and carried by a message it publishes
\* (unless the program is stopped before it gets to publish it).
C9_ViewerCommandReflected ==
    (\E k \in 1..MaxCmds :
        /\ k <= Len(command_socket)
        /\ command_socket[k] = [type |-> "gripper_value", arg |-> 500])
      ~> (uiMsg = Some(500) \/ uiMainPc \in {"cleanup", "done"})


\* C5 as stated: both publisher-to-relay streams are latest-only with no
\* queue: a relay only ever processes the newest message its publisher has
\* produced, and no backlog of older messages is kept for it.
C5_LatestOnlyNoQueue ==
    /\ stGot # Nothing =>
          stGot[1].msg = (IF stGot[1].from = "sub" THEN pubSeq ELSE pushSeq)
    /\ Len(pullPipe) <= 1

\* C5 as the code has it: B_for_triple's conflating SUB socket hands over
\* only the newest published message; the PUSH/PULL pipe to B_reverse_whole
\* is a queue that keeps every pushed message, in order, up to the
\* high-water mark; on both streams a relay never processes a message older
\* than one it has already processed.
C5_ConflatedSubQueuedPush ==
    /\ (stGot # Nothing /\ stGot[1].from = "sub") => stGot[1].msg = pubSeq
    /\ subPipe # Nothing => subPipe[1] > subLast
    /\ Len(pullPipe) <= Hwm
    /\ \A k \in 1..Len(pullPipe) : pullPipe[k] = pullLast + k
    /\ pullLast + Len(pullPipe) = pushSeq

\* both publishers are ahead of their relays: the SUB socket holds the newest
\* message, older ones having been replaced unprocessed, and the PULL relay
\* has a full pipe of older messages to work through
C5_Witness ==
    /\ subLast >= 1
    /\ subPipe = Some(pubSeq)
    /\ pubSeq >= subLast + 2
    /\ Len(pullPipe) = Hwm
    /\ pullLast >= 1


\* C6: thread_command_handler recovers from every error: after the (finitely
\* many) faults it has, for good, a receiving socket bound on the A-facing
\* port, and it goes on forwarding to C the commands A keeps sending.
C6_HandlerRecovers ==
    /\ <>[](bPc = "run" => socket_from_a = "bound")
    /\ []<>(bOutcome = "forwarded")


\* C7: every received message whose text parses as JSON is published to C,
\* unmodified, exactly once and in the order received; a message that fails
\* JSON decoding is not forwarded.
C7_ForwardsEveryJsonMessage == fwdSent = fwdParsed


\* C8: every message of debug_publisher_thread that reaches zmq_listener is
\* decoded and passed to process_data (total_messages counts it), and no
\* message makes the listener fail.
C8_DebugFeedConsumed ==
    /\ total_messages = debugReached
    /\ listenErrors = 0

\* two mapped coordinates (exact fractions) are the same number
SameValue(a, b) == a.num * b.den = b.num * a.den
SameMapped(s, t, axis) == SameValue(cmpMapped[1][s][axis], cmpMapped[1][t][axis])

\* C11 as stated: for the same end-effector position the four publisher
\* scripts produce the same mapped position.
C11_SameRemapInAllScripts ==
    cmpMapped # Nothing =>
       \A s \in PublisherScripts, t \in PublisherScripts, axis \in 1..3 :
          SameMapped(s, t, axis)

\* C11 as the code has it: the four scripts apply the same clamp-then-affine
\* formula and agree on the mapped y; dual_imu_publisher and
\* triple_imu_publisher agree with each other on every axis, and so do
\* triple_imu_rs485_publisher and its dual_cam_UI_voice variant; between the
\* two pairs the x and z ranges differ: the first pair maps x into
\* [0.22, 0.35] and z into [0.16, 0.36], the second x into [0.22, 0.42] and
\* z into [0.1, 0.4].
C11_SameRemapWithinPairs ==
    cmpMapped # Nothing =>
       /\ \A s \in PublisherScripts, t \in PublisherScripts :
             SameMapped(s, t, 2)
       /\ \A axis \in 1..3 :
             /\ SameMapped("dual_imu_publisher", "triple_imu_publisher", axis)
             /\ SameMapped("triple_imu_rs485_publisher",
                           "triple_imu_rs485_publisher_dual_cam_UI_voice",
                           axis)
       /\ LET d == cmpMapped[1]["dual_imu_publisher"]
              r == cmpMapped[1]["triple_imu_rs485_publisher"]
          IN  /\ 220 * d[1].den <= d[1].num /\ d[1].num <= 350 * d[1].den
              /\ 160 * d[3].den <= d[3].num /\ d[3].num <= 360 * d[3].den
              /\ InTarget(r[1], X_TARGET_MIN, X_TARGET_MAX)
              /\ InTarget(r[3], Z_TARGET_MIN, Z_TARGET_MAX)

\* a position inside both raw workspaces has been mapped by the four
\* scripts, and the two pairs differ on x and on z
C11_Witness ==
    /\ cmpMapped # Nothing
    /\ cmpPos[1] = X_RAW_MAX
    /\ cmpPos[2] = 0
    /\ cmpPos[3] = Z_RAW_MAX
    /\ ~SameMapped("dual_imu_publisher", "triple_imu_rs485_publisher", 1)
    /\ ~SameMapped("triple_imu_publisher",
                   "triple_imu_rs485_publisher_dual_cam_UI_voice", 3)

\* C12: in NORMAL mode the normalized yaw returned for a raw yaw in
\* [-180, 180] and a previously recorded offset in [-180, 180] (and the 0.0
\* returned for the first frame) lies in [-180, 180] degrees.
C12_NormalYawInRange ==
    (yawMode = "NORMAL" /\ yawResult # Nothing) =>
       /\ yawResult[1] >= -HalfTurn
       /\ yawResult[1] <= HalfTurn
       /\ yawOffset # Nothing
       /\ yawOffset[1] >= -HalfTurn
       /\ yawOffset[1] <= HalfTurn

\* NORMAL mode: raw minus offset left [-180, 180] and was wrapped back
C12_Witness ==
    /\ yawMode = "NORMAL"
    /\ yawResult # Nothing
    /\ yawOffset # Nothing
    /\ yawRaw - yawOffset[1] > HalfTurn
    /\ yawResult[1] = yawRaw - yawOffset[1] - FullTurn

\* C13: in OFF mode normalize_yaw_angle returns the raw yaw unchanged and
\* records no zeroing offset other than 0.0.
C13_OffReturnsRaw ==
    (yawMode = "OFF" /\ yawResult # Nothing) =>
       /\ yawResult[1] = yawRaw
       /\ yawOffset = Some(0)

\* C14: the request is 8 bytes: address, function code 0x03, start register
\* and register count big-endian, then the Modbus CRC16 of those six bytes
\* low byte first; the CRC16 over all 8 bytes is 0; the frame equals the one
\* simple_serial_test assembles for the same fields (its three test commands
\* included); the reference frame 01 03 00 00 00 0A has CRC bytes C5 CD.
C14_ModbusRequestFrame ==
    request # Nothing =>
       LET r == request[1]
           body == SubSeq(r, 1, 6)
       IN  /\ Len(r) = 8
           /\ \A k \in 1..8 : r[k] \in 0..255
           /\ r[1] = device_addr
           /\ r[2] = 3
           /\ r[3] * 256 + r[4] = start_reg
           /\ r[5] * 256 + r[6] = num_regs
           /\ r[7] + 256 * r[8] = calculate_crc16_modbus(body)
           /\ calculate_crc16_modbus(r) = 0
           /\ r = full_command(body)
           /\ body \in test_commands => r = full_command(body)
           /\ (device_addr = 1 /\ start_reg = 0 /\ num_regs = 10) =>
                 (r[7] = 197 /\ r[8] = 205)

\* the request of simple_serial_test's first command has been built, and its
\* two CRC bytes differ
C14_Witness ==
    /\ request # Nothing
    /\ SubSeq(request[1], 1, 6) \in test_commands
    /\ request[1][7] # request[1][8]

\* C15: ping returns True only when the call actually received a reply from
\* the server, and False in every other case.
C15_PingTrueOnlyOnReply ==
    pingReturned # Nothing => (pingReturned[1] <=> pingGotReply)

\* C16: from_bytes(to_bytes(x)) equals x, with the same structure and
\* types, whichever of the JSON or pickle encodings was chosen for x.
C16_SerializerRoundTrip ==
    tsBack # Nothing => tsBack[1] = tsObject

\* C17: last write wins between zmq_receiver and the control loop: a
\* message is applied to the target pose at most once; the message applied
\* is the one most recently stored, whatever arrived before it since the
\* last iteration; and new_data_available is never left cleared over a
\* stored message that has not been applied.
C17_LastWriteWins ==
    /\ \A i \in 1..Len(applied), j \in 1..Len(applied) :
          i < j => applied[i] < applied[j]
    /\ loopPc = "clear" =>
          (received_data # Nothing /\ applied[Len(applied)] = received_data[1]
             /\ received_data[1] = stored)
    /\ (~new_data_available /\ received_data # Nothing
          /\ rxPc \notin {"flag"} /\ loopPc \notin {"clear"}) =>
          (applied # <<>> /\ applied[Len(applied)] = received_data[1])
    /\ \A i \in 1..Len(applied) : applied[i] \notin overwritten

\* two messages were stored between two iterations of the control loop, the
\* second one has been applied and the first one never
C17_Witness ==
    /\ applied = <<1, 3>>
    /\ overwritten = {2}
    /\ stored = 3
    /\ ~new_data_available
    /\ loopPc = "idle"

\* C18: on every exit of main after the PUB socket is bound, the RS485
\* device has been closed exactly once if it was open and not at all
\* otherwise, the PUB socket has been closed once and the ZeroMQ context
\* terminated once.
C18_CleanupOnEveryExit ==
    exPc = "exited" =>
       /\ deviceCloses = (IF wasOpen THEN 1 ELSE 0)
       /\ ~isOpen
       /\ socketCloses = 1
       /\ contextTerms = 1

=============================================================================
